---- MODULE Spec2Model ----
(***************************************************************************)
(* HarborGuard: scan-job lifecycle and progress delivery.                  *)
(*                                                                         *)
(*   SpecBatch  the batch execution pipeline                               *)
(*              (app/api/scheduled-scans/[id]/execute/route.ts): the POST  *)
(*              handler and the background task startScanExecution, one    *)
(*              action per awaited call, every persistence call free to    *)
(*              resolve or to throw.                                       *)
(*   SpecSse    the connection manager (class SSEManager) driven by its    *)
(*              public methods, the EventSource callbacks and its timers,  *)
(*              with no listener registered.                               *)
(*   Spec       the ScanningProvider: the reducer, the completion effect,  *)
(*              refreshJobs and the calls of the context value, over the   *)
(*              connection manager with transports that do not fail, and a *)
(*              server that runs one scan and answers snapshot fetches.    *)
(*   SpecReducer    the reducer's AUTO_CLEANUP applied to stored jobs of   *)
(*              every status and age.                                      *)
(*   SpecHeartbeat  the connection manager with connect given options:     *)
(*              which retry limit each callback and timer uses.            *)
(*   SpecRouter the connection manager's onmessage over parsed and         *)
(*              unparsable messages.                                       *)
(*   SpecListeners  the connection manager with registered listeners, some *)
(*              of which throw.                                            *)
(*   SpecPolling, SpecTimers  the provider with its polling interval and   *)
(*              its cleanup interval; SpecTimers lets every timer fire.    *)
(*   SpecBackoff    the connection manager with connect given a retry      *)
(*              interval: the delay of each scheduled reconnect.           *)
(*   SpecStore  the whole reducer over full ScanJob records.               *)
(*   SpecCompletion the provider's completion effect without the calls     *)
(*              that remove jobs.                                          *)
(*   SpecUnmount    the provider of SpecTimers until it is unmounted: the  *)
(*              interval timers of the polling effect.                     *)
(*   SpecChannel    the provider receiving progress messages whose         *)
(*              requestId need not be that of the EventSource.             *)
(***************************************************************************)
EXTENDS Integers, Sequences, FiniteSets, TLC

VARIABLES
    sched,      \* the scheduledScan row read by POST (fixed during a run)
    post,       \* the POST handler: position, resolved list, HTTP response
    hist,       \* the scheduledScanHistory row (the batch record)
    run,        \* startScanExecution: position, loop index, local counters
    scans,      \* prisma.scan rows created, in creation order
    results,    \* scheduledScanResult rows, indexed by target position
    attempted,  \* image ids whose loop iteration was entered, in order
    now,        \* Date.now(), in seconds
    conns,      \* SSEManager.connections: requestId -> ManagedConnection
    orph,       \* per requestId, the EventSources and timers that no entry
                \* of the table references any more but that are still live
    failures,   \* per requestId, the consecutive failures of the entry's own
                \* transport (onerror of its EventSource, expiry of its
                \* heartbeat timer) since it was created or last opened
    lastCall,   \* the public method called on the manager by the last step
                \* of SpecSse, its argument, its return value and what it
                \* found
    srv,        \* the scan on the server: status and progress
    chan,       \* per requestId, the progress messages the server has written
                \* to the event stream and the client has not yet received
    snaps,      \* the responses of /api/scans/jobs that are under way
    jobs,       \* state.jobs
    queuedScans,    \* state.queuedScans, by requestId
    prevJobs,   \* previousJobsRef.current, by the status of each job
    completions,    \* per requestId, the calls of onScanCompleteRef.current
    onScanComplete, \* whether onScanCompleteRef.current holds a callback
    grace,      \* per requestId, the due times of the pending setTimeout
                \* callbacks that disconnect it
    connOptions,    \* per requestId, options.maxRetries as given to connect
                \* and as captured by the callbacks of the entry's
                \* EventSource (es) and of its reconnect timer (rt)
    routed,     \* the last call of onmessage: the requestId, the data it
                \* emitted as 'progress' and whether an exception left it
    listeners,  \* per event name, the listeners registered on the manager in
                \* registration order, each by whether it throws
    invoked,    \* the last call of emit: the event name, the number of
                \* listeners registered for it and the listeners called
    pollEvery,  \* the period of the interval in pollingIntervalRef, seconds
    pollLeft,   \* the seconds until that interval fires next
    pruneLeft,  \* the seconds until the cleanup interval fires next
    isPolling,  \* state.isPolling
    poller,     \* pollingIntervalRef.current, the interval timers of the polling
                \* effect that are armed, and whether the provider is mounted
    backoff,    \* per requestId, the retryInterval the callbacks carry and the
                \* delay and number of the reconnect last scheduled
    state       \* the reducer's state with the full ScanJob records

batchVars == <<sched, post, hist, run, scans, results, attempted>>

sseVars == <<conns, orph, failures, lastCall>>

pollVars == <<pollEvery, pollLeft, pruneLeft, isPolling, poller>>

providerVars == <<srv, chan, snaps, jobs, queuedScans, prevJobs, completions,
                  onScanComplete, grace, pollVars>>

\* everything the batch pipeline does not own
heardVars == <<listeners, invoked>>

storeVars == <<backoff, state>>

nonBatchVars == <<now, sseVars, providerVars, connOptions, routed, heardVars, storeVars>>

\* everything the connection manager does not own
nonSseVars == <<sched, post, hist, run, scans, results, attempted, now,
                providerVars, connOptions, routed, heardVars, storeVars>>

vars == <<sched, post, hist, run, scans, results, attempted,
          now, conns, orph, failures, lastCall,
          srv, chan, snaps, jobs, queuedScans, prevJobs, completions,
          onScanComplete, grace, connOptions, routed, listeners, invoked,
          pollEvery, pollLeft, pruneLeft, isPolling, poller, backoff, state>>

----------------------------------------------------------------------------
(* Bounds *)

MaxImages == 3      \* images in the inventory
MaxLeaked == 3      \* unreferenced EventSources and timers live at a time
MaxInflight == 2    \* progress messages under way on an event stream
MaxSnaps == 1       \* snapshot responses under way
MaxListeners == 2   \* listeners registered per event name

----------------------------------------------------------------------------
(* Connection manager (class SSEManager): data *)

JobIds == {"a", "b"}

maxRetries == 3

NoConn == [status |-> "none"]

\* the ManagedConnection created by connect; es is the readyState of the
\* EventSource in connection.eventSource ("none" when it is null), hb and rt
\* say whether heartbeatTimer and reconnectTimer hold a pending timer
NewConnection(t) ==
    [status |-> "connecting", retryCount |-> 0, es |-> "none",
     hb |-> FALSE, rt |-> FALSE, lastActivity |-> t]

\* An EventSource that no table entry references is still live: nothing
\* closes it. cur says whether the ManagedConnection its callbacks captured is
\* the entry now in the table; st is its readyState.
OrphanSources == [cur : BOOLEAN, st : {"connecting", "open"}]

NoOrphans == [es |-> {}, rt |-> 0, hb |-> 0]

\* the captured ManagedConnection of every unreferenced EventSource is no
\* longer the one in the table
Detach(es) == {[o EXCEPT !.cur = FALSE] : o \in es}

Pair(c, o) == [c |-> c, o |-> o]

FailCap == maxRetries + 2

\* this.options.maxRetries in all three places: connect was called without
\* options
DefaultOptions == [given |-> maxRetries, es |-> maxRetries, rt |-> maxRetries]

\* event.data of a message: parse says whether JSON.parse throws, returns
\* null or returns an object; the other fields are the object's properties
\* by the kind of their value ("undefined" for a missing key, "empty" for '',
\* "text" for a non-empty string, "zero" for 0, "number" for any other number)
Msg(parse, type, requestId, scanId, status, progress) ==
    [parse |-> parse, type |-> type, requestId |-> requestId,
     scanId |-> scanId, status |-> status, progress |-> progress]

NoData == Msg("none", "undefined", "undefined", "undefined", "undefined",
              "undefined")

\* onmessage has not run
NoRouted == [id |-> "none", data |-> NoData, escaped |-> FALSE]

\* the events of the manager that listeners register for
EventNames == {"progress", "statusChange", "error"}

\* this.options.retryInterval, in milliseconds
DefaultRetryInterval == 1000

\* es and rt are options.retryInterval as the callbacks of the entry's
\* EventSource and of its reconnect timer captured it, used the one the last
\* handleConnectionError was given; delay is the delay of the reconnect it
\* scheduled (0 when it scheduled none) and k the number of reconnects
\* scheduled since the entry was created or last opened
DefaultBackoff ==
    [es |-> DefaultRetryInterval, rt |-> DefaultRetryInterval,
     used |-> DefaultRetryInterval,
     delay |-> 0, k |-> 0]

\* the state useReducer starts from; jobs maps every requestId to undefined
initialState ==
    [jobs |-> [j \in {"a", "b"} |-> [status |-> "none"]], queuedScans |-> {},
     lastFetchTime |-> 0, isPolling |-> FALSE]

\* emit has not been called
NoEmit == [event |-> "none", registered |-> 0, called |-> <<>>]

\* this.connections.get(requestId) found an entry
Has(c) == c # NoConn

\* no public method was called in the last step
NoCall == [op |-> "none", id |-> "none", ret |-> FALSE, found |-> "null"]

----------------------------------------------------------------------------
(* ScanningProvider: data *)

\* the requestIds of the scans the server runs
Submitted == {"a"}

\* the instants Date.now() goes through, in seconds
Instants == {0, 2, 5}

Terminal == {"SUCCESS", "FAILED", "CANCELLED"}

Progress == {0, 50, 100}

\* A ScanJob is kept by the fields the transitions read or the claims are
\* about: status, progress, lastUpdate (seconds).
\* state.jobs.get(requestId) is undefined
NoJob == [status |-> "none"]

\* A mounted provider before its effects ran: pollingIntervalRef.current is
\* null and no interval timer is armed. current is "armed" or "cleared" when
\* the ref holds the id of a timer that is armed or was cleared.
NoPoller == [current |-> "null", armed |-> 0, mounted |-> TRUE]

\* a cleanup that clears nothing
PollingCleanupSkipped(r) == r

\* the cleanup function of the polling effect: clearInterval of the ref's
\* timer, the ref keeps the id
PollingCleanup(r) ==
    IF r.current = "armed"
    THEN [r EXCEPT !.current = "cleared", !.armed = @ - 1]
    ELSE r

\* the body of the polling effect: clearInterval of the ref's timer and
\* null, then setInterval
PollingBody(r) ==
    [r EXCEPT !.current = "armed",
              !.armed = IF r.current = "armed" THEN @ ELSE @ + 1]

\* the periods of the polling interval and of the cleanup interval, seconds
FastPoll == 3
SlowPoll == 30
CleanupEvery == 5

NoScan == [status |-> "NONE", progress |-> 0]

InitProvider ==
    /\ srv = NoScan
    /\ chan = [j \in JobIds |-> <<>>]
    /\ snaps = {}
    /\ jobs = [j \in JobIds |-> NoJob]
    /\ queuedScans = {}
    /\ prevJobs = [j \in JobIds |-> "none"]
    /\ completions = [j \in JobIds |-> 0]
    /\ onScanComplete = FALSE
    /\ grace = [j \in JobIds |-> {}]
    /\ pollEvery = SlowPoll
    /\ pollLeft = SlowPoll
    /\ pruneLeft = CleanupEvery
    /\ isPolling = FALSE
    /\ poller = PollingBody(NoPoller)

----------------------------------------------------------------------------
(* Batch execution pipeline: data *)

Inventory == [i \in 1..MaxImages |-> i]

\* the image table: empty, or holding MaxImages images
Inventories == {<<>>, Inventory}

SelectionModes == {"SPECIFIC", "PATTERN", "ALL", "REPOSITORY", "OTHER"}

\* Image patterns by what RegExp construction and regex.test do with them:
\* "" is the unset pattern, "(" does not compile, the others compile and
\* match the `name:tag` of no image, of the odd-numbered images, of all.
Patterns == {"", "(", "^$", "odd", ".*"}

RegExpThrows(p) == p = "("

RegexTest(p, img) ==
    CASE p = ".*"  -> TRUE
      [] p = "odd" -> img % 2 = 1
      [] OTHER     -> FALSE

RECURSIVE FilterSeq(_, _)
FilterSeq(s, p) ==
    IF s = <<>> THEN <<>>
    ELSE IF RegexTest(p, Head(s))
         THEN <<Head(s)>> \o FilterSeq(Tail(s), p)
         ELSE FilterSeq(Tail(s), p)

Selections == {<<>>, <<1>>, <<2, 1>>} \cup {Inventory}

NoHist ==
    [exists |-> FALSE, status |-> "NONE", totalImages |-> 0,
     scannedImages |-> 0, failedImages |-> 0,
     completedAt |-> FALSE, errorMessage |-> FALSE]

TerminalBatch == {"COMPLETED", "PARTIAL", "FAILED"}

\* status written by the finalization, from the local failedCount
FinalStatusSwapped(failedCount, n) ==
    IF failedCount > 0 THEN "PARTIAL"
    ELSE IF failedCount = n THEN "FAILED" ELSE "COMPLETED"

FinalStatus(failedCount, n) ==
    IF failedCount = n THEN "FAILED"
    ELSE IF failedCount > 0 THEN "PARTIAL" ELSE "COMPLETED"

----------------------------------------------------------------------------
(* POST /api/scheduled-scans/[id]/execute *)

Respond(code) == post' = [post EXCEPT !.pc = "done", !.status = code]

\* AfterSelection without the check for an empty list
AfterSelectionUnchecked(imgs) ==
    post' = [post EXCEPT !.pc = "create", !.images = imgs]

\* the synchronous code after the target list is known: the empty check, then
\* the call of scheduledScanHistory.create
AfterSelection(imgs) ==
    IF Len(imgs) = 0
    THEN Respond(400)
    ELSE post' = [post EXCEPT !.pc = "create", !.images = imgs]

\* PostFind without the check of scheduledScan.enabled
PostFindEnabledUnchecked(ok) ==
    /\ post.pc = "find"
    /\ UNCHANGED <<sched, hist, run, scans, results, attempted, nonBatchVars>>
    /\ IF ~ok THEN Respond(500)
       ELSE IF ~sched.exists THEN Respond(404)
       ELSE CASE sched.mode = "SPECIFIC" -> AfterSelection(sched.selected)
              [] sched.mode = "PATTERN" ->
                    IF sched.pattern = "" THEN AfterSelection(<<>>)
                    ELSE IF RegExpThrows(sched.pattern) THEN Respond(500)
                    ELSE post' = [post EXCEPT !.pc = "findMany"]
              [] sched.mode = "ALL" -> post' = [post EXCEPT !.pc = "findMany"]
              [] sched.mode = "REPOSITORY" -> Respond(501)
              [] OTHER -> AfterSelection(<<>>)

\* await prisma.scheduledScan.findUnique, then the checks and the switch up
\* to the next awaited call
PostFind(ok) ==
    /\ post.pc = "find"
    /\ UNCHANGED <<sched, hist, run, scans, results, attempted, nonBatchVars>>
    /\ IF ~ok THEN Respond(500)
       ELSE IF ~sched.exists THEN Respond(404)
       ELSE IF ~sched.enabled THEN Respond(400)
       ELSE CASE sched.mode = "SPECIFIC" -> AfterSelection(sched.selected)
              [] sched.mode = "PATTERN" ->
                    IF sched.pattern = "" THEN AfterSelection(<<>>)
                    ELSE IF RegExpThrows(sched.pattern) THEN Respond(500)
                    ELSE post' = [post EXCEPT !.pc = "findMany"]
              [] sched.mode = "ALL" -> post' = [post EXCEPT !.pc = "findMany"]
              [] sched.mode = "REPOSITORY" -> Respond(501)
              [] OTHER -> AfterSelection(<<>>)

\* await prisma.image.findMany (PATTERN and ALL), which resolves with the
\* rows inv of the image table or throws
PostFindMany(ok, inv) ==
    /\ post.pc = "findMany"
    /\ UNCHANGED <<sched, hist, run, scans, results, attempted, nonBatchVars>>
    /\ IF ~ok THEN Respond(500)
       ELSE IF sched.mode = "PATTERN"
            THEN AfterSelection(FilterSeq(inv, sched.pattern))
            ELSE AfterSelection(inv)

\* await prisma.scheduledScanHistory.create, then the call of
\* startScanExecution, which runs up to its first await
PostCreate(ok) ==
    /\ post.pc = "create"
    /\ UNCHANGED <<sched, scans, results, attempted, nonBatchVars>>
    /\ IF ~ok
       THEN /\ Respond(500)
            /\ UNCHANGED <<hist, run>>
       ELSE /\ hist' = [NoHist EXCEPT !.exists = TRUE, !.status = "PENDING",
                                      !.totalImages = Len(post.images)]
            /\ run' = [run EXCEPT !.pc = "setRunning", !.images = post.images]
            /\ post' = [post EXCEPT !.pc = "lastRun"]

\* await prisma.scheduledScan.update({lastRunAt}), then the 202 response
PostLastRun(ok) ==
    /\ post.pc = "lastRun"
    /\ UNCHANGED <<sched, hist, run, scans, results, attempted, nonBatchVars>>
    /\ IF ok THEN Respond(202) ELSE Respond(500)

----------------------------------------------------------------------------
(* startScanExecution *)

N == Len(run.images)

\* the end of one loop iteration: the next image, or the finalization
NextTarget(r) ==
    IF r.idx < Len(r.images)
    THEN [r EXCEPT !.idx = r.idx + 1, !.pc = "scanCreate"]
    ELSE [r EXCEPT !.pc = "finalize"]

\* the catch block of the loop body: failedCount++, then the update is issued
Catch(r) == [r EXCEPT !.failedCount = r.failedCount + 1, !.pc = "failedUpdate"]

\* await scheduledScanHistory.update({status: 'RUNNING'})
BgSetRunning(ok) ==
    /\ run.pc = "setRunning"
    /\ UNCHANGED <<sched, post, scans, results, attempted, nonBatchVars>>
    /\ IF ok
       THEN /\ hist' = [hist EXCEPT !.status = "RUNNING"]
            /\ run' = [run EXCEPT !.idx = 1, !.pc = "scanCreate"]
       ELSE /\ run' = [run EXCEPT !.pc = "handler"]
            /\ UNCHANGED hist

\* await prisma.scan.create for images[idx]
BgScanCreate(ok) ==
    /\ run.pc = "scanCreate"
    /\ attempted' = Append(attempted, run.images[run.idx])
    /\ UNCHANGED <<sched, post, hist, results, nonBatchVars>>
    /\ IF ok
       THEN /\ scans' = Append(scans, [imageId |-> run.images[run.idx],
                                        status |-> "PENDING"])
            /\ run' = [run EXCEPT !.pc = "resultCreate"]
       ELSE /\ run' = Catch(run)
            /\ UNCHANGED scans

\* await prisma.scheduledScanResult.create
BgResultCreate(ok) ==
    /\ run.pc = "resultCreate"
    /\ UNCHANGED <<sched, post, hist, scans, attempted, nonBatchVars>>
    /\ IF ok
       THEN /\ results' = [results EXCEPT ![run.idx] = "PENDING"]
            /\ run' = [run EXCEPT !.pc = "sleep"]
       ELSE /\ run' = Catch(run)
            /\ UNCHANGED results

\* await new Promise(resolve => setTimeout(resolve, 100)): the simulated scan
BgSleep ==
    /\ run.pc = "sleep"
    /\ run' = [run EXCEPT !.pc = "resultUpdate"]
    /\ UNCHANGED <<sched, post, hist, scans, results, attempted, nonBatchVars>>

\* await scheduledScanResult.update({status: 'SUCCESS'}), then scannedCount++
\* and the progress update is issued
BgResultUpdate(ok) ==
    /\ run.pc = "resultUpdate"
    /\ UNCHANGED <<sched, post, hist, scans, attempted, nonBatchVars>>
    /\ IF ok
       THEN /\ results' = [results EXCEPT ![run.idx] = "SUCCESS"]
            /\ run' = [run EXCEPT !.scannedCount = run.scannedCount + 1,
                                  !.pc = "progressUpdate"]
       ELSE /\ run' = Catch(run)
            /\ UNCHANGED results

\* await scheduledScanHistory.update({scannedImages, failedImages}), the last
\* statement of the try block
BgProgressUpdate(ok) ==
    /\ run.pc = "progressUpdate"
    /\ UNCHANGED <<sched, post, scans, results, attempted, nonBatchVars>>
    /\ IF ok
       THEN /\ hist' = [hist EXCEPT !.scannedImages = run.scannedCount,
                                    !.failedImages = run.failedCount]
            /\ run' = NextTarget(run)
       ELSE /\ run' = Catch(run)
            /\ UNCHANGED hist

\* await scheduledScanHistory.update({failedImages}) in the catch block: a
\* throw here leaves the loop and rejects the task
BgFailedUpdate(ok) ==
    /\ run.pc = "failedUpdate"
    /\ UNCHANGED <<sched, post, scans, results, attempted, nonBatchVars>>
    /\ IF ok
       THEN /\ hist' = [hist EXCEPT !.failedImages = run.failedCount]
            /\ run' = NextTarget(run)
       ELSE /\ run' = [run EXCEPT !.pc = "handler"]
            /\ UNCHANGED hist

\* await scheduledScanHistory.update: the finalization
BgFinalize(ok) ==
    /\ run.pc = "finalize"
    /\ UNCHANGED <<sched, post, scans, results, attempted, nonBatchVars>>
    /\ IF ok
       THEN /\ hist' = [hist EXCEPT
                          !.status = FinalStatus(run.failedCount, N),
                          !.completedAt = TRUE,
                          !.scannedImages = run.scannedCount,
                          !.failedImages = run.failedCount]
            /\ run' = [run EXCEPT !.pc = "done", !.finalized = TRUE]
       ELSE /\ run' = [run EXCEPT !.pc = "handler"]
            /\ UNCHANGED hist

\* the .catch handler writing COMPLETED
BgHandlerCompleted(ok) ==
    /\ run.pc = "handler"
    /\ UNCHANGED <<sched, post, scans, results, attempted, nonBatchVars>>
    /\ run' = [run EXCEPT !.pc = "done", !.faulted = TRUE]
    /\ IF ok
       THEN hist' = [hist EXCEPT !.status = "COMPLETED", !.errorMessage = TRUE,
                                 !.completedAt = TRUE]
       ELSE UNCHANGED hist

\* the .catch of POST: scheduledScanHistory.update({status: 'FAILED', ...}),
\* whose own rejection is only logged
BgHandler(ok) ==
    /\ run.pc = "handler"
    /\ UNCHANGED <<sched, post, scans, results, attempted, nonBatchVars>>
    /\ run' = [run EXCEPT !.pc = "done", !.faulted = TRUE]
    /\ IF ok
       THEN hist' = [hist EXCEPT !.status = "FAILED", !.errorMessage = TRUE,
                                 !.completedAt = TRUE]
       ELSE UNCHANGED hist

----------------------------------------------------------------------------
(* Specification of the batch pipeline *)

NoRun ==
    [pc |-> "idle", idx |-> 0, scannedCount |-> 0, failedCount |-> 0,
     images |-> <<>>, finalized |-> FALSE, faulted |-> FALSE]

InitBatch ==
    /\ sched \in [exists : BOOLEAN, enabled : BOOLEAN, mode : SelectionModes,
                  pattern : Patterns, selected : Selections]
    /\ post = [pc |-> "find", status |-> 0, images |-> <<>>]
    /\ hist = NoHist
    /\ run = NoRun
    /\ scans = <<>>
    /\ results = [i \in 1..MaxImages |-> "NONE"]
    /\ attempted = <<>>
    /\ InitProvider
    /\ now = 0
    /\ conns = [j \in JobIds |-> NoConn]
    /\ orph = [j \in JobIds |-> NoOrphans]
    /\ failures = [j \in JobIds |-> 0]
    /\ lastCall = NoCall
    /\ connOptions = [j \in JobIds |-> DefaultOptions]
    /\ routed = NoRouted
    /\ listeners = [ev \in EventNames |-> <<>>]
    /\ invoked = NoEmit
    /\ backoff = [j \in JobIds |-> DefaultBackoff]
    /\ state = initialState

NextBatch ==
    \/ \E ok \in BOOLEAN : PostFind(ok)
    \/ \E ok \in BOOLEAN, inv \in Inventories : PostFindMany(ok, inv)
    \/ \E ok \in BOOLEAN : PostCreate(ok)
    \/ \E ok \in BOOLEAN : PostLastRun(ok)
    \/ \E ok \in BOOLEAN : BgSetRunning(ok)
    \/ \E ok \in BOOLEAN : BgScanCreate(ok)
    \/ \E ok \in BOOLEAN : BgResultCreate(ok)
    \/ BgSleep
    \/ \E ok \in BOOLEAN : BgResultUpdate(ok)
    \/ \E ok \in BOOLEAN : BgProgressUpdate(ok)
    \/ \E ok \in BOOLEAN : BgFailedUpdate(ok)
    \/ \E ok \in BOOLEAN : BgFinalize(ok)
    \/ \E ok \in BOOLEAN : BgHandler(ok)

SpecBatch == InitBatch /\ [][NextBatch]_vars

----------------------------------------------------------------------------
(* Batch execution pipeline: properties *)

\* targets whose unit of work succeeded: the result row was persisted SUCCESS
Succeeded == {i \in 1..N : results[i] = "SUCCESS"}

\* C3: in every state reachable during startScanExecution, also when a
\* persistence write fails inside the per-target try block, the persisted
\* counters satisfy scannedImages >= 0, failedImages >= 0 and
\* scannedImages + failedImages <= totalImages.
C3_CountersWithinTotal ==
    hist.exists =>
        /\ hist.scannedImages >= 0
        /\ hist.failedImages >= 0
        /\ hist.scannedImages + hist.failedImages <= hist.totalImages

\* C4: the status the finalization writes is FAILED iff failedCount equals
\* totalTargets, PARTIAL iff 0 < failedCount < totalTargets and COMPLETED iff
\* failedCount is 0, whatever the per-target outcomes.
C4_FinalStatusOfCounters ==
    run.finalized =>
        /\ hist.totalImages >= 1
        /\ (hist.status = "FAILED") <=> (hist.failedImages = hist.totalImages)
        /\ (hist.status = "PARTIAL") <=>
               (0 < hist.failedImages /\ hist.failedImages < hist.totalImages)
        /\ (hist.status = "COMPLETED") <=> (hist.failedImages = 0)

\* a finalized batch of three targets with some but not all of them failed
C4_Witness ==
    /\ run.finalized
    /\ hist.totalImages = 3
    /\ hist.failedImages = 2
    /\ hist.status = "PARTIAL"

\* C5: at finalization each target is counted in exactly one counter:
\* scannedImages is the number of targets whose unit of work succeeded,
\* failedImages the number whose unit of work failed, and they add up to
\* totalImages.
C5_EachTargetCountedOnce ==
    run.finalized =>
        /\ hist.scannedImages = Cardinality(Succeeded)
        /\ hist.failedImages = N - Cardinality(Succeeded)
        /\ hist.scannedImages + hist.failedImages = hist.totalImages

\* C6: a batch whose background task has ended is in a terminal status, and
\* when the task threw outside the per-target handling the batch is FAILED
\* with the error message and a completion timestamp.
C6_EndedBatchIsTerminal ==
    run.pc = "done" =>
        /\ hist.status \in TerminalBatch
        /\ run.faulted =>
               /\ hist.status = "FAILED"
               /\ hist.errorMessage
               /\ hist.completedAt

\* C7: once the per-target loop has been entered, every target of the
\* resolved list is attempted (its job-record creation issued) exactly once,
\* in list order, whatever the outcomes of the earlier targets.
C7_EveryTargetAttempted ==
    (run.pc = "done" /\ run.idx >= 1) => attempted = run.images

----------------------------------------------------------------------------
(* Connection manager: the methods, on one requestId's entry c and its
   unreferenced sources and timers o *)

\* establishConnection: a new EventSource is stored in connection.eventSource
\* (the one that was there is not closed) and the status set to connecting
EstablishConnection(c, o) ==
    IF ~Has(c) THEN Pair(c, o)
    ELSE Pair([c EXCEPT !.es = "connecting", !.status = "connecting"],
              IF c.es = "none" THEN o
              ELSE [o EXCEPT !.es = @ \cup {[cur |-> TRUE, st |-> c.es]}])

\* connect without the check for an existing connected entry
ConnectAlways(c, o, t) ==
    EstablishConnection(
        NewConnection(t),
        IF ~Has(c) THEN o
        ELSE [es |-> Detach(o.es) \cup
                     (IF c.es = "none" THEN {}
                      ELSE {[cur |-> FALSE, st |-> c.es]}),
              rt |-> o.rt + (IF c.rt THEN 1 ELSE 0),
              hb |-> o.hb + (IF c.hb THEN 1 ELSE 0)])

\* connect: an entry that is connected is left alone; any other entry is
\* replaced by a new ManagedConnection, its EventSource and timers left live
Connect(c, o, t) ==
    IF Has(c) /\ c.status = "connected" THEN Pair(c, o)
    ELSE ConnectAlways(c, o, t)

\* handleConnectionError retrying while retryCount <= maxRetries
HandleConnectionErrorInclusive(c, o) ==
    IF ~Has(c) THEN Pair(c, o)
    ELSE IF c.retryCount <= maxRetries
         THEN Pair([c EXCEPT !.es = "none", !.hb = FALSE, !.rt = TRUE,
                             !.retryCount = c.retryCount + 1,
                             !.status = "reconnecting"], o)
         ELSE Pair([c EXCEPT !.es = "none", !.hb = FALSE, !.rt = FALSE,
                             !.status = "error"], o)

\* handleConnectionError(requestId, options) for options.maxRetries = limit
HandleConnectionErrorWith(c, o, limit) ==
    IF ~Has(c) THEN Pair(c, o)
    ELSE IF c.retryCount < limit
         THEN Pair([c EXCEPT !.es = "none", !.hb = FALSE, !.rt = TRUE,
                             !.retryCount = c.retryCount + 1,
                             !.status = "reconnecting"], o)
         ELSE Pair([c EXCEPT !.es = "none", !.hb = FALSE, !.rt = FALSE,
                             !.status = "error"], o)

\* handleConnectionError: close the entry's EventSource, clear its timers,
\* then schedule a reconnect or give up
HandleConnectionError(c, o) == HandleConnectionErrorWith(c, o, maxRetries)

\* the delay of the reconnect scheduled at retryCount k, in milliseconds
RECURSIVE Pow2(_)
Pow2(k) == IF k = 0 THEN 1 ELSE 2 * Pow2(k - 1)

\* the delay doubling from the first reconnect on
ReconnectDelayDoubled(retryInterval, k) ==
    IF retryInterval * Pow2(k) < 30000
    THEN retryInterval * Pow2(k) ELSE 30000

ReconnectDelay(retryInterval, k) ==
    IF retryInterval * Pow2(k - 1) < 30000
    THEN retryInterval * Pow2(k - 1) ELSE 30000

\* startHeartbeatTimer (and resetHeartbeatTimer): clear, then arm
StartHeartbeatTimer(c) == IF ~Has(c) THEN c ELSE [c EXCEPT !.hb = TRUE]

\* disconnect deleting the entry without closing its EventSource and without
\* clearing its timers
DisconnectLeaving(c, o) ==
    IF ~Has(c) THEN Pair(c, o)
    ELSE Pair(NoConn,
              [es |-> Detach(o.es) \cup
                      (IF c.es = "none" THEN {}
                       ELSE {[cur |-> FALSE, st |-> c.es]}),
               rt |-> o.rt + (IF c.rt THEN 1 ELSE 0),
               hb |-> o.hb + (IF c.hb THEN 1 ELSE 0)])

\* disconnect: close the entry's EventSource, clear its timers, delete it
Disconnect(c, o) ==
    IF ~Has(c) THEN Pair(c, o)
    ELSE Pair(NoConn, [o EXCEPT !.es = Detach(@)])

\* the statusChange events disconnect emits: none on the early return,
\* 'disconnected' after the delete
DisconnectEmits(c) == IF ~Has(c) THEN {} ELSE {"disconnected"}

\* getConnectionStatus
GetConnectionStatus(c) == IF Has(c) THEN c.status ELSE "null"

\* getActiveConnections
GetActiveConnections == {j \in JobIds : Has(conns[j]) /\ conns[j].status = "connected"}

\* the open EventSources of j, each by whether the ManagedConnection its
\* callbacks captured is the entry in the table
OpenSources(j) ==
    (IF Has(conns[j]) /\ conns[j].es = "open" THEN {TRUE} ELSE {})
    \cup {x.cur : x \in {y \in orph[j].es : y.st = "open"}}

\* onmessage, first statement: connection.lastActivity = Date.now()
Touch(c, cur, t) == IF cur /\ Has(c) THEN [c EXCEPT !.lastActivity = t] ELSE c

----------------------------------------------------------------------------
(* Connection manager: steps *)

\* unreferenced EventSources and timers that are live
Leaked(o) == Cardinality(o.es) + o.rt + o.hb

\* The unreferenced parts explored per requestId: up to MaxLeaked for the
\* first id; the second id is the bystander whose entry goes through the
\* states that leave nothing unreferenced.
LeakBudget(j) == IF j = "a" THEN MaxLeaked ELSE 0

\* the step of requestId j's entry and unreferenced parts to p
SetSse(j, p) ==
    /\ Leaked(p.o) <= LeakBudget(j)
    /\ conns' = [conns EXCEPT ![j] = p.c]
    /\ orph' = [orph EXCEPT ![j] = p.o]
    /\ UNCHANGED nonSseVars

\* connect(j) called from outside
ConnectCall(j) ==
    /\ SetSse(j, Connect(conns[j], orph[j], now))
    /\ failures' = [failures EXCEPT ![j] =
                      IF Has(conns[j]) /\ conns[j].status = "connected"
                      THEN @ ELSE 0]
    /\ lastCall' = [op |-> "connect", id |-> j, ret |-> TRUE,
                    found |-> GetConnectionStatus(conns[j])]

\* disconnect(j) called from outside
DisconnectCall(j) ==
    /\ SetSse(j, Disconnect(conns[j], orph[j]))
    /\ failures' = [failures EXCEPT ![j] = 0]
    /\ lastCall' = [op |-> "disconnect", id |-> j, ret |-> FALSE,
                    found |-> GetConnectionStatus(conns[j])]

\* disconnectAll (also the beforeunload listener)
DisconnectAllCall ==
    /\ conns' = [j \in JobIds |-> Disconnect(conns[j], orph[j]).c]
    /\ orph' = [j \in JobIds |-> Disconnect(conns[j], orph[j]).o]
    /\ failures' = [j \in JobIds |-> 0]
    /\ lastCall' = [op |-> "disconnectAll", id |-> "none", ret |-> FALSE,
                    found |-> "null"]
    /\ UNCHANGED nonSseVars

\* eventSource.onopen of the entry's own EventSource
OnOpen(j) ==
    /\ Has(conns[j])
    /\ conns[j].es = "connecting"
    /\ conns' = [conns EXCEPT ![j] =
                   [@ EXCEPT !.es = "open", !.status = "connected",
                             !.retryCount = 0, !.lastActivity = now,
                             !.hb = TRUE]]
    /\ failures' = [failures EXCEPT ![j] = 0]
    /\ lastCall' = NoCall
    /\ UNCHANGED <<orph, nonSseVars>>

\* eventSource.onopen of an unreferenced EventSource: it writes to the
\* ManagedConnection it captured and arms the heartbeat timer of whatever
\* entry the table holds
OnOpenOrphan(j, x) ==
    /\ x \in orph[j].es
    /\ x.st = "connecting"
    /\ orph' = [orph EXCEPT ![j].es = (@ \ {x}) \cup {[x EXCEPT !.st = "open"]}]
    /\ conns' = [conns EXCEPT ![j] =
                   IF x.cur /\ Has(@)
                   THEN [@ EXCEPT !.status = "connected", !.retryCount = 0,
                                  !.lastActivity = now, !.hb = TRUE]
                   ELSE StartHeartbeatTimer(@)]
    /\ failures' = [failures EXCEPT ![j] = IF x.cur THEN 0 ELSE @]
    /\ lastCall' = NoCall
    /\ UNCHANGED nonSseVars

CountFailure(j) ==
    failures' = [failures EXCEPT ![j] =
                   IF ~Has(conns[j]) THEN @
                   ELSE IF @ < FailCap THEN @ + 1 ELSE @]

\* eventSource.onerror of the entry's own EventSource
OnError(j) ==
    /\ Has(conns[j])
    /\ conns[j].es # "none"
    /\ SetSse(j, HandleConnectionError(conns[j], orph[j]))
    /\ CountFailure(j)
    /\ lastCall' = NoCall

\* eventSource.onerror of an unreferenced EventSource: the handler acts on the
\* entry in the table; the source itself is closed for good (fatal) or goes
\* on retrying by itself
OnErrorOrphan(j, x, fatal) ==
    /\ x \in orph[j].es
    /\ LET p == HandleConnectionError(conns[j], orph[j])
           rest == p.o.es \ {x}
       IN SetSse(j, Pair(p.c,
                    [p.o EXCEPT !.es = IF fatal THEN rest
                                       ELSE rest \cup {[x EXCEPT !.st = "connecting"]}]))
    /\ lastCall' = NoCall
    /\ UNCHANGED failures

\* the heartbeat timer of the entry fires
HeartbeatTimeout(j) ==
    /\ Has(conns[j])
    /\ conns[j].hb
    /\ SetSse(j, HandleConnectionError(conns[j], orph[j]))
    /\ CountFailure(j)
    /\ lastCall' = NoCall

\* a heartbeat timer of a replaced entry fires
OrphanHeartbeatTimeout(j) ==
    /\ orph[j].hb > 0
    /\ SetSse(j, HandleConnectionError(conns[j],
                                       [orph[j] EXCEPT !.hb = @ - 1]))
    /\ lastCall' = NoCall
    /\ UNCHANGED failures

\* the reconnect timer of the entry fires
ReconnectFire(j) ==
    /\ Has(conns[j])
    /\ conns[j].rt
    /\ SetSse(j, EstablishConnection([conns[j] EXCEPT !.rt = FALSE], orph[j]))
    /\ lastCall' = NoCall
    /\ UNCHANGED failures

\* a reconnect timer of a replaced entry fires
OrphanReconnectFire(j) ==
    /\ orph[j].rt > 0
    /\ SetSse(j, EstablishConnection(conns[j], [orph[j] EXCEPT !.rt = @ - 1]))
    /\ lastCall' = NoCall
    /\ UNCHANGED failures

\* the cleanup interval (60 s): entries in error, and entries disconnected
\* and idle for more than 5 minutes, are disconnected
Stale(c) ==
    /\ Has(c)
    /\ \/ c.status = "error"
       \/ c.status = "disconnected" /\ now - c.lastActivity > 5 * 60

Sweep ==
    /\ conns' = [j \in JobIds |->
                   IF Stale(conns[j]) THEN Disconnect(conns[j], orph[j]).c
                   ELSE conns[j]]
    /\ orph' = [j \in JobIds |->
                   IF Stale(conns[j]) THEN Disconnect(conns[j], orph[j]).o
                   ELSE orph[j]]
    /\ failures' = [j \in JobIds |-> IF Stale(conns[j]) THEN 0 ELSE failures[j]]
    /\ lastCall' = NoCall
    /\ UNCHANGED nonSseVars

\* eventSource.onmessage with no listener registered on the manager: only a
\* heartbeat has an effect beyond lastActivity
MessageTypes == {"progress", "heartbeat", "connected", "other"}

OnMessageUnheard(j, cur, type) ==
    /\ cur \in OpenSources(j)
    /\ conns' = [conns EXCEPT ![j] =
                   IF type = "heartbeat"
                   THEN StartHeartbeatTimer(Touch(@, cur, now))
                   ELSE Touch(@, cur, now)]
    /\ lastCall' = NoCall
    /\ UNCHANGED <<orph, failures, nonSseVars>>

----------------------------------------------------------------------------
(* Specification of the connection manager *)

InitSse ==
    /\ InitProvider
    /\ now = 0
    /\ conns = [j \in JobIds |-> NoConn]
    /\ orph = [j \in JobIds |-> NoOrphans]
    /\ failures = [j \in JobIds |-> 0]
    /\ lastCall = NoCall
    /\ connOptions = [j \in JobIds |-> DefaultOptions]
    /\ routed = NoRouted
    /\ listeners = [ev \in EventNames |-> <<>>]
    /\ invoked = NoEmit
    /\ backoff = [j \in JobIds |-> DefaultBackoff]
    /\ state = initialState

InitBatchIdle ==
    /\ sched = [exists |-> FALSE, enabled |-> FALSE, mode |-> "SPECIFIC",
                pattern |-> "", selected |-> <<>>]
    /\ post = [pc |-> "done", status |-> 0, images |-> <<>>]
    /\ hist = NoHist
    /\ run = NoRun
    /\ scans = <<>>
    /\ results = [i \in 1..MaxImages |-> "NONE"]
    /\ attempted = <<>>

\* the state after construction: no batch is triggered, the manager's table
\* and the provider's store are empty
Init ==
    /\ InitSse
    /\ InitBatchIdle

NextSse ==
    \/ \E j \in JobIds : ConnectCall(j)
    \/ \E j \in JobIds : DisconnectCall(j)
    \/ DisconnectAllCall
    \/ \E j \in JobIds : OnOpen(j)
    \/ \E j \in JobIds, x \in OrphanSources : OnOpenOrphan(j, x)
    \/ \E j \in JobIds : OnError(j)
    \/ \E j \in JobIds, x \in OrphanSources, fatal \in BOOLEAN :
           OnErrorOrphan(j, x, fatal)
    \/ \E j \in JobIds : HeartbeatTimeout(j)
    \/ \E j \in JobIds : OrphanHeartbeatTimeout(j)
    \/ \E j \in JobIds : ReconnectFire(j)
    \/ \E j \in JobIds : OrphanReconnectFire(j)
    \/ Sweep
    \/ \E j \in JobIds, cur \in BOOLEAN, type \in MessageTypes :
           OnMessageUnheard(j, cur, type)

SpecSse == Init /\ [][NextSse]_vars

----------------------------------------------------------------------------
(* Connection manager: properties *)

\* C8: connect(id) on an entry whose status is connected returns true, opens
\* no EventSource and leaves the entry, its timers and its transport as they
\* are, so that a second call behaves like the first.
C8_ConnectIdempotentWhenConnected ==
    [][\A j \in JobIds :
         (ConnectCall(j) /\ Has(conns[j]) /\ conns[j].status = "connected")
         => /\ conns' = conns
            /\ orph' = orph
            /\ failures' = failures
            /\ lastCall'.ret = TRUE]_vars

\* connect was just called on an entry it found connected
C8_Witness ==
    /\ lastCall.op = "connect"
    /\ lastCall.found = "connected"
    /\ lastCall.ret = TRUE
    /\ \E j \in JobIds : lastCall.id = j /\ conns[j].status = "connected"
                         /\ conns[j].es = "open" /\ conns[j].hb

----------------------------------------------------------------------------
(* ScanningProvider: scanningReducer, on the map state.jobs *)

\* a ScanProgressEvent
Event(j, st, p, t) == [requestId |-> j, status |-> st, progress |-> p, timestamp |-> t]

\* case UPDATE_SCAN_PROGRESS
UPDATE_SCAN_PROGRESS(js, event) ==
    [js EXCEPT ![event.requestId] =
        [status |-> event.status, progress |-> event.progress,
         lastUpdate |-> event.timestamp]]

\* case ADD_SCAN_JOB
ADD_SCAN_JOB(js, j, st, p, t) ==
    [js EXCEPT ![j] = [status |-> st, progress |-> p, lastUpdate |-> t]]

\* case REMOVE_SCAN_JOB
REMOVE_SCAN_JOB(js, j) == [js EXCEPT ![j] = NoJob]

\* case SET_JOBS: the payload, a map built from the listed jobs, replaces
\* state.jobs
SET_JOBS(js, payload) == payload

\* case CLEAR_COMPLETED_JOBS
CLEAR_COMPLETED_JOBS(js) ==
    [j \in JobIds |-> IF js[j] # NoJob /\ js[j].status = "RUNNING"
                      THEN js[j] ELSE NoJob]

\* case AUTO_CLEANUP keeping a job up to and including the end of its window
AUTO_CLEANUP_Inclusive(js, t) ==
    [j \in JobIds |->
        IF js[j] = NoJob THEN NoJob
        ELSE IF js[j].status = "RUNNING" THEN js[j]
        ELSE IF js[j].status = "SUCCESS"
             THEN (IF t - js[j].lastUpdate <= 5 THEN js[j] ELSE NoJob)
        ELSE IF js[j].status \in {"FAILED", "CANCELLED"}
             THEN (IF t - js[j].lastUpdate <= 30 THEN js[j] ELSE NoJob)
        ELSE NoJob]

\* case AUTO_CLEANUP, at currentTime t (seconds)
AUTO_CLEANUP(js, t) ==
    [j \in JobIds |->
        IF js[j] = NoJob THEN NoJob
        ELSE IF js[j].status = "RUNNING" THEN js[j]
        ELSE IF js[j].status = "SUCCESS"
             THEN (IF t - js[j].lastUpdate < 5 THEN js[j] ELSE NoJob)
        ELSE IF js[j].status \in {"FAILED", "CANCELLED"}
             THEN (IF t - js[j].lastUpdate < 30 THEN js[j] ELSE NoJob)
        ELSE NoJob]

----------------------------------------------------------------------------
(* ScanningProvider: the completion effect and the steps of the store *)

\* some EventSource of the id is open
Open(c, o) ==
    \/ Has(c) /\ c.es = "open"
    \/ \E x \in o.es : x.st = "open"

\* completion effect, first branch: SUCCESS now, known and not SUCCESS before
JustSucceeded(prev, js) ==
    {j \in JobIds : /\ js[j].status = "SUCCESS"
                    /\ prev[j] # "none"
                    /\ prev[j] # "SUCCESS"}

\* the second branch looking at FAILED alone
JustFailed(prev, js) ==
    {j \in JobIds : /\ js[j].status = "FAILED"
                    /\ prev[j] = "RUNNING"}

\* completion effect, second branch: FAILED or CANCELLED now, RUNNING before
JustEnded(prev, js) ==
    {j \in JobIds : /\ js[j].status \in {"FAILED", "CANCELLED"}
                    /\ prev[j] = "RUNNING"}

\* the polling effect's condition on the store
ShouldPoll(js, qs) ==
    \/ \E j \in JobIds : js[j].status = "RUNNING"
    \/ qs # {}

\* the polling effect ignoring state.queuedScans
PollingEffectJobsOnly ==
    /\ pollEvery' = IF ShouldPoll(jobs', {}) THEN FastPoll ELSE SlowPoll
    /\ pollLeft' = IF ShouldPoll(jobs', {}) THEN FastPoll ELSE SlowPoll
    /\ isPolling' = ShouldPoll(jobs', {})
    /\ poller' = PollingBody(PollingCleanup(poller))

\* the polling effect, which runs after every render in which state.jobs or
\* state.queuedScans is a new object: it clears the interval, sets a new one
\* of 3 s or 30 s and dispatches SET_POLLING
PollingEffect ==
    /\ pollEvery' = IF ShouldPoll(jobs', queuedScans')
                    THEN FastPoll ELSE SlowPoll
    /\ pollLeft' = IF ShouldPoll(jobs', queuedScans')
                   THEN FastPoll ELSE SlowPoll
    /\ isPolling' = ShouldPoll(jobs', queuedScans')
    /\ poller' = PollingBody(PollingCleanup(poller))

\* A dispatch that replaces state.jobs by js, after the handler's own calls
\* of the manager left the table as cn and the unreferenced parts as on and
\* the event streams as ch; then the completion effect runs on the new map:
\* callback and 2 s timer for the jobs that succeeded, disconnect for those
\* that ended, and previousJobsRef is set. Messages written to a stream that
\* no EventSource reads any more are gone.
Commit(js, cn, on, ch) ==
    LET ended == JustEnded(prevJobs, js)
        succ == JustSucceeded(prevJobs, js)
        c2 == [j \in JobIds |-> IF j \in ended
                                THEN Disconnect(cn[j], on[j]).c ELSE cn[j]]
        o2 == [j \in JobIds |-> IF j \in ended
                                THEN Disconnect(cn[j], on[j]).o ELSE on[j]]
    IN /\ \A j \in JobIds : Leaked(o2[j]) <= LeakBudget(j)
       /\ jobs' = js
       /\ prevJobs' = [j \in JobIds |-> js[j].status]
       /\ completions' = [j \in JobIds |->
                            IF j \in succ /\ onScanComplete
                            THEN completions[j] + 1 ELSE completions[j]]
       /\ grace' = [j \in JobIds |->
                      IF j \in succ THEN grace[j] \cup {now + 2} ELSE grace[j]]
       /\ conns' = c2
       /\ orph' = o2
       /\ chan' = [j \in JobIds |-> IF Open(c2[j], o2[j]) THEN ch[j] ELSE <<>>]
       /\ UNCHANGED <<batchVars, connOptions, routed, heardVars, storeVars,
                   now, failures, lastCall>>

\* the clock moves to the next instant
Tick ==
    /\ \E t \in Instants : t > now
    /\ now' = CHOOSE t \in Instants :
                 t > now /\ \A u \in Instants : u > now => t <= u
    /\ UNCHANGED <<batchVars, connOptions, routed, heardVars, storeVars,
                   sseVars, providerVars>>

\* the server writes a progress message to the event stream of j if an
\* EventSource reads it
Emit(j, st, p) ==
    IF Open(conns[j], orph[j])
    THEN /\ Len(chan[j]) < MaxInflight
         /\ chan' = [chan EXCEPT ![j] = Append(@, Event(j, st, p, now))]
    ELSE UNCHANGED chan

ServerStep(j, st, p) ==
    /\ srv' = [status |-> st, progress |-> p]
    /\ Emit(j, st, p)
    /\ UNCHANGED <<batchVars, connOptions, routed, heardVars, storeVars,
                   pollVars, now, sseVars, snaps, jobs, queuedScans, prevJobs,
                   completions, onScanComplete, grace>>

\* the scan is submitted: it waits in the queue or starts at once
SrvSubmit(j, st) ==
    /\ srv.status = "NONE"
    /\ ServerStep(j, st, 0)

SrvStart(j) ==
    /\ srv.status = "QUEUED"
    /\ ServerStep(j, "RUNNING", 0)

SrvProgress(j) ==
    /\ srv.status = "RUNNING"
    /\ srv.progress < 100
    /\ ServerStep(j, "RUNNING", srv.progress + 50)

SrvFinish(j, st) ==
    /\ srv.status = "RUNNING"
    /\ ServerStep(j, st, IF st = "SUCCESS" THEN 100 ELSE srv.progress)

----------------------------------------------------------------------------
(* ScanningProvider: refreshJobs, the context value, the timers *)

\* what /api/scans/jobs answers: the scan while it runs, its queue entry
\* while it waits, and, if the server lists them, the scan once it is over
Listing(listsFinished) ==
    [job |-> IF \/ srv.status = "RUNNING"
                \/ srv.status \in Terminal /\ listsFinished
             THEN [status |-> srv.status, progress |-> srv.progress]
             ELSE NoJob,
     queued |-> srv.status = "QUEUED"]

\* refreshJobs up to the await of fetch
FetchStart(listsFinished) ==
    /\ Cardinality(snaps \cup {Listing(listsFinished)}) <= MaxSnaps
    /\ snaps' = snaps \cup {Listing(listsFinished)}
    /\ UNCHANGED <<batchVars, connOptions, routed, heardVars, storeVars,
                   pollVars, now, sseVars, srv, chan, jobs, queuedScans,
                   prevJobs, completions, onScanComplete, grace>>

\* refreshJobs when fetch throws or the response is not ok
FetchFail(s) ==
    /\ s \in snaps
    /\ snaps' = snaps \ {s}
    /\ UNCHANGED <<batchVars, connOptions, routed, heardVars, storeVars,
                   pollVars, now, sseVars, srv, chan, jobs, queuedScans,
                   prevJobs, completions, onScanComplete, grace>>

\* the jobs refreshJobs builds from the response: lastUpdate is the time of
\* the response
Payload(s, t) ==
    [j \in JobIds |->
        IF j \in Submitted /\ s.job # NoJob
        THEN [status |-> s.job.status, progress |-> s.job.progress,
              lastUpdate |-> t]
        ELSE NoJob]

\* refreshJobs from the response on: SET_JOBS, SET_QUEUED_SCANS, connect for
\* the RUNNING jobs that getActiveConnections does not list, disconnect for
\* the listed connections whose job is absent or not RUNNING
FetchApply(s) ==
    /\ s \in snaps
    /\ snaps' = snaps \ {s}
    /\ queuedScans' = IF s.queued THEN Submitted ELSE {}
    /\ LET js == SET_JOBS(jobs, Payload(s, now))
           active == GetActiveConnections
           after(j) ==
               IF js[j].status = "RUNNING" /\ j \notin active
               THEN Connect(conns[j], orph[j], now)
               ELSE IF j \in active /\ js[j].status # "RUNNING"
               THEN Disconnect(conns[j], orph[j])
               ELSE Pair(conns[j], orph[j])
       IN Commit(js, [j \in JobIds |-> after(j).c],
                 [j \in JobIds |-> after(j).o], chan)
    /\ UNCHANGED <<srv, onScanComplete, pruneLeft>>
    /\ PollingEffect

\* addScanJob, called for a scan that is not in the store by the page that
\* submitted it, with the status the server gave it
AddScanJob(j) ==
    /\ srv.status \in {"QUEUED", "RUNNING"}
    /\ jobs[j] = NoJob
    /\ LET p == IF srv.status = "RUNNING"
                THEN Connect(conns[j], orph[j], now)
                ELSE Pair(conns[j], orph[j])
       IN Commit(ADD_SCAN_JOB(jobs, j, srv.status, 0, now),
                 [conns EXCEPT ![j] = p.c], [orph EXCEPT ![j] = p.o], chan)
    /\ UNCHANGED <<srv, snaps, queuedScans, onScanComplete, pruneLeft>>
    /\ PollingEffect

\* removeScanJob
RemoveScanJob(j) ==
    /\ jobs[j] # NoJob
    /\ LET p == Disconnect(conns[j], orph[j])
       IN Commit(REMOVE_SCAN_JOB(jobs, j),
                 [conns EXCEPT ![j] = p.c], [orph EXCEPT ![j] = p.o], chan)
    /\ UNCHANGED <<srv, snaps, queuedScans, onScanComplete, pruneLeft>>
    /\ PollingEffect

\* clearCompletedJobs
ClearCompletedJobs ==
    /\ \E j \in JobIds : jobs[j] # NoJob /\ jobs[j].status # "RUNNING"
    /\ Commit(CLEAR_COMPLETED_JOBS(jobs), conns, orph, chan)
    /\ UNCHANGED <<srv, snaps, queuedScans, onScanComplete, pruneLeft>>
    /\ PollingEffect

\* the cleanup interval (5 s) fires
AutoCleanup ==
    /\ now >= 5
    /\ Commit(AUTO_CLEANUP(jobs, now), conns, orph, chan)
    /\ UNCHANGED <<srv, snaps, queuedScans, onScanComplete, pruneLeft>>
    /\ PollingEffect

\* setOnScanComplete
SetOnScanComplete ==
    /\ ~onScanComplete
    /\ onScanComplete' = TRUE
    /\ UNCHANGED <<batchVars, connOptions, routed, heardVars, storeVars,
                   pollVars, now, sseVars, srv, chan, snaps, jobs,
                   queuedScans, prevJobs, completions, grace>>

\* a 2 s timer of the completion effect fires: disconnect(j)
GraceFire(j, d) ==
    /\ d \in grace[j]
    /\ now >= d
    /\ grace' = [grace EXCEPT ![j] = @ \ {d}]
    /\ LET p == Disconnect(conns[j], orph[j])
       IN /\ conns' = [conns EXCEPT ![j] = p.c]
          /\ orph' = [orph EXCEPT ![j] = p.o]
          /\ chan' = [chan EXCEPT ![j] = IF Open(p.c, p.o) THEN @ ELSE <<>>]
    /\ UNCHANGED <<batchVars, connOptions, routed, heardVars, storeVars,
                   pollVars, now, failures, lastCall, srv, snaps, jobs,
                   queuedScans, prevJobs, completions, onScanComplete>>

\* onmessage of an open EventSource of j with the next progress message of
\* the stream: the manager emits it, the hook hands it to onProgress, which
\* dispatches UPDATE_SCAN_PROGRESS
Deliver(j) ==
    /\ chan[j] # <<>>
    /\ \E cur \in OpenSources(j) :
          Commit(UPDATE_SCAN_PROGRESS(jobs, Head(chan[j])),
                 [conns EXCEPT ![j] = Touch(@, cur, now)], orph,
                 [chan EXCEPT ![j] = Tail(@)])
    /\ UNCHANGED <<srv, snaps, queuedScans, onScanComplete, pruneLeft>>
    /\ PollingEffect

----------------------------------------------------------------------------
(* Specification of the provider *)

Next ==
    \/ Tick
    \/ \E j \in Submitted, st \in {"QUEUED", "RUNNING"} : SrvSubmit(j, st)
    \/ \E j \in Submitted : SrvStart(j)
    \/ \E j \in Submitted : SrvProgress(j)
    \/ \E j \in Submitted, st \in Terminal : SrvFinish(j, st)
    \/ \E b \in BOOLEAN : FetchStart(b)
    \/ \E s \in snaps : FetchFail(s)
    \/ \E s \in snaps : FetchApply(s)
    \/ \E j \in Submitted : AddScanJob(j)
    \/ \E j \in Submitted : RemoveScanJob(j)
    \/ ClearCompletedJobs
    \/ AutoCleanup
    \/ SetOnScanComplete
    \/ \E j \in Submitted, d \in Instants \cup {t + 2 : t \in Instants} :
           GraceFire(j, d)
    \/ \E j \in Submitted : Deliver(j)
    \/ \E j \in Submitted : OnOpen(j)
    \/ \E j \in Submitted, x \in OrphanSources : OnOpenOrphan(j, x)

Spec == Init /\ [][Next]_vars

----------------------------------------------------------------------------
(* ScanningProvider: properties *)

Rank(st) ==
    CASE st = "QUEUED"  -> 0
      [] st = "RUNNING" -> 1
      [] OTHER          -> 2

\* C1: the stored status of a job moves only forward along QUEUED, RUNNING,
\* {SUCCESS, FAILED, CANCELLED}, and a stored SUCCESS, FAILED or CANCELLED
\* never changes to a different status.
C1_StatusOnlyForward ==
    [][\A j \in JobIds :
         (jobs[j] # NoJob /\ jobs'[j] # NoJob)
         => /\ Rank(jobs[j].status) <= Rank(jobs'[j].status)
            /\ jobs[j].status \in Terminal
               => jobs'[j].status = jobs[j].status]_vars

\* C2: UPDATE_SCAN_PROGRESS with an event whose timestamp is earlier than
\* the lastUpdate of the stored job leaves the stored status and progress
\* of that job as they are.
C2_OlderEventIgnored ==
    [][\A j \in Submitted :
         (/\ Deliver(j)
          /\ jobs[j] # NoJob
          /\ Head(chan[j]).timestamp < jobs[j].lastUpdate)
         => /\ jobs'[j].status = jobs[j].status
            /\ jobs'[j].progress = jobs[j].progress]_vars

\* C10: the completion callback is called at most once for a job.
C10_CallbackAtMostOnce ==
    \A j \in JobIds : completions[j] <= 1

\* C11: a step in which the stored status of a job becomes SUCCESS, while a
\* callback is registered and the provider holds a connection for the job,
\* leaves the callback called at least once for that job, also when the job
\* was not in the store before the step.
C11_SuccessIsReported ==
    [][\A j \in JobIds :
         (/\ onScanComplete
          /\ Has(conns[j])
          /\ jobs'[j].status = "SUCCESS"
          /\ jobs[j].status # "SUCCESS")
         => completions'[j] >= 1]_vars

\* C12: the connection of a job is not disconnected while a 2 s timer armed
\* by its transition into SUCCESS is still short of its due time, unless
\* removeScanJob was called for it.
C12_GraceBeforeDisconnect ==
    [][\A j \in Submitted :
         (/\ Has(conns[j])
          /\ ~Has(conns'[j])
          /\ \E d \in grace[j] : now < d)
         => RemoveScanJob(j)]_vars

----------------------------------------------------------------------------
(* scanningReducer as a function: a store drawn from a bounded set, one
   dispatch applied to it *)

Statuses == {"QUEUED", "RUNNING"} \cup Terminal

\* the times of the last update of the drawn jobs and of the dispatch, chosen
\* around the two retention windows
UpdateTimes == {0, 1}

DispatchTimes == {4, 5, 6, 29, 30, 31}

StoredJobs ==
    {NoJob} \cup [status : Statuses, progress : {50}, lastUpdate : UpdateTimes]

\* a store after a render whose effects have run
InitReducer ==
    /\ InitBatchIdle
    /\ conns = [j \in JobIds |-> NoConn]
    /\ orph = [j \in JobIds |-> NoOrphans]
    /\ failures = [j \in JobIds |-> 0]
    /\ lastCall = NoCall
    /\ connOptions = [j \in JobIds |-> DefaultOptions]
    /\ routed = NoRouted
    /\ listeners = [ev \in EventNames |-> <<>>]
    /\ invoked = NoEmit
    /\ backoff = [j \in JobIds |-> DefaultBackoff]
    /\ state = initialState
    /\ srv = NoScan
    /\ chan = [j \in JobIds |-> <<>>]
    /\ snaps = {}
    /\ queuedScans = {}
    /\ completions = [j \in JobIds |-> 0]
    /\ onScanComplete = FALSE
    /\ grace = [j \in JobIds |-> {}]
    /\ pollEvery = SlowPoll
    /\ pollLeft = SlowPoll
    /\ pruneLeft = CleanupEvery
    /\ isPolling = FALSE
    /\ poller = PollingBody(NoPoller)
    /\ now \in DispatchTimes
    /\ jobs \in [JobIds -> StoredJobs]
    /\ prevJobs = [j \in JobIds |-> jobs[j].status]

\* dispatch({type: 'AUTO_CLEANUP'}): the reducer's new state, its effects
\* not yet run (previousJobsRef still holds the map before the dispatch)
DispatchAutoCleanup ==
    /\ jobs' = AUTO_CLEANUP(jobs, now)
    /\ UNCHANGED <<batchVars, connOptions, routed, heardVars, storeVars,
                   pollVars, now, sseVars, srv, chan, snaps, queuedScans,
                   prevJobs, completions, onScanComplete, grace>>

NextReducer ==
    \/ DispatchAutoCleanup

SpecReducer == InitReducer /\ [][NextReducer]_vars

\* C13: AUTO_CLEANUP keeps every RUNNING job, keeps a SUCCESS job iff less
\* than 5 s have passed since its lastUpdate and a FAILED or CANCELLED job
\* iff less than 30 s have passed; a job it keeps is unchanged.
C13_AutoCleanupRetention ==
    [][DispatchAutoCleanup =>
         \A j \in JobIds :
            jobs[j] # NoJob =>
               /\ jobs'[j] \in {jobs[j], NoJob}
               /\ jobs[j].status = "RUNNING" => jobs'[j] = jobs[j]
               /\ jobs[j].status = "SUCCESS" =>
                     ((jobs'[j] = jobs[j]) <=> (now - jobs[j].lastUpdate < 5))
               /\ jobs[j].status \in {"FAILED", "CANCELLED"} =>
                     ((jobs'[j] = jobs[j]) <=> (now - jobs[j].lastUpdate < 30))]_vars

\* a prune 31 s after the last update of a FAILED job has removed it and has
\* kept a RUNNING job of the same age
C13_Witness ==
    /\ now = 31
    /\ prevJobs["a"] = "FAILED"
    /\ jobs["a"] = NoJob
    /\ jobs["b"] # NoJob
    /\ jobs["b"].status = "RUNNING"
    /\ jobs["b"].lastUpdate = 0

----------------------------------------------------------------------------
(* POST: properties of the configuration errors *)

ClientError == 400..499

\* no batch record exists and startScanExecution has not been started
NothingStarted ==
    /\ ~hist.exists
    /\ run = NoRun
    /\ scans = <<>>
    /\ attempted = <<>>

\* C14: when the lookup finds the scheduled scan disabled, POST answers with
\* a 4xx status at once; and for a disabled scheduled scan no batch record
\* is ever created and no background execution started.
C14_DisabledIsRejected ==
    /\ [][(PostFind(TRUE) /\ sched.exists /\ ~sched.enabled)
            => /\ post'.pc = "done"
               /\ post'.status \in ClientError]_vars
    /\ []((sched.exists /\ ~sched.enabled) => NothingStarted)

\* POST has answered 400 for a disabled scheduled scan that selects images
C14_Witness ==
    /\ sched.exists
    /\ ~sched.enabled
    /\ sched.mode = "SPECIFIC"
    /\ sched.selected # <<>>
    /\ post.pc = "done"
    /\ post.status = 400

\* C15: when target resolution yields no target (SPECIFIC with an empty
\* list, PATTERN with no pattern or no match, ALL with an empty image table)
\* POST answers with a 4xx status; and whenever POST has answered 4xx no
\* batch record exists and no background execution was started.
C15_NoTargetsIsRejected ==
    /\ [][(/\ PostFind(TRUE)
           /\ sched.exists /\ sched.enabled
           /\ \/ sched.mode = "SPECIFIC" /\ sched.selected = <<>>
              \/ sched.mode = "PATTERN" /\ sched.pattern = "")
            => /\ post'.pc = "done"
               /\ post'.status \in ClientError]_vars
    /\ [][\A inv \in Inventories :
            (/\ PostFindMany(TRUE, inv)
             /\ \/ sched.mode = "ALL" /\ inv = <<>>
                \/ sched.mode = "PATTERN"
                   /\ FilterSeq(inv, sched.pattern) = <<>>)
            => /\ post'.pc = "done"
               /\ post'.status \in ClientError]_vars
    /\ []((post.pc = "done" /\ post.status \in ClientError) => NothingStarted)

\* POST has answered 400 for an enabled scheduled scan of mode ALL: the image
\* table was empty
C15_Witness ==
    /\ sched.exists
    /\ sched.enabled
    /\ sched.mode = "ALL"
    /\ post.pc = "done"
    /\ post.status = 400

\* C16: for a selection mode other than SPECIFIC, PATTERN and ALL, POST
\* answers with a status of the 4xx class and creates no batch.
C16_OtherModesAreClientErrors ==
    /\ [][(/\ PostFind(TRUE)
           /\ sched.exists /\ sched.enabled
           /\ sched.mode \notin {"SPECIFIC", "PATTERN", "ALL"})
            => /\ post'.pc = "done"
               /\ post'.status \in ClientError]_vars
    /\ []((sched.exists /\ sched.mode \notin {"SPECIFIC", "PATTERN", "ALL"})
            => NothingStarted)

\* C17: a pattern that is not a regular expression makes POST answer with a
\* status of the 4xx class, and no batch record is created.
C17_InvalidPatternIsClientError ==
    /\ [][(/\ PostFind(TRUE)
           /\ sched.exists /\ sched.enabled
           /\ sched.mode = "PATTERN"
           /\ RegExpThrows(sched.pattern))
            => /\ post'.pc = "done"
               /\ post'.status \in ClientError]_vars
    /\ []((sched.exists /\ sched.mode = "PATTERN"
           /\ RegExpThrows(sched.pattern)) => NothingStarted)

----------------------------------------------------------------------------
(* Connection manager: disconnect *)

\* C18: disconnect(id) without an entry changes nothing and emits nothing;
\* with an entry it removes the entry, so that getConnectionStatus(id) is
\* null, leaves neither the entry's EventSource nor one of its timers live,
\* changes no other id, and a second call changes nothing.
C18_DisconnectFrame ==
    [][\A j \in JobIds :
         DisconnectCall(j) =>
           /\ GetConnectionStatus(conns'[j]) = "null"
           /\ \A k \in JobIds \ {j} : conns'[k] = conns[k] /\ orph'[k] = orph[k]
           /\ orph'[j].rt = orph[j].rt
           /\ orph'[j].hb = orph[j].hb
           /\ {x.st : x \in orph'[j].es} \subseteq {x.st : x \in orph[j].es}
           /\ ~Has(conns[j]) => /\ conns' = conns
                                /\ orph' = orph
                                /\ DisconnectEmits(conns[j]) = {}
           /\ Has(conns[j]) => DisconnectEmits(conns[j]) = {"disconnected"}
           /\ (lastCall.op = "disconnect" /\ lastCall.id = j)
                => conns' = conns /\ orph' = orph]_vars

\* disconnect has just removed a connected entry that held an open
\* EventSource, while the other id keeps its entry
C18_Witness ==
    /\ lastCall.op = "disconnect"
    /\ lastCall.id = "a"
    /\ lastCall.found = "connected"
    /\ conns["a"] = NoConn
    /\ Has(conns["b"])

----------------------------------------------------------------------------
(* Connection manager: connect with options *)

\* the values of options.maxRetries that callers pass to connect
RetryLimits == {0, 1, maxRetries}

\* connect(j, {maxRetries: limit}) for an id that has no entry or a connected
\* one; connOptions of line 474 is what establishConnection and the callbacks
\* of the new EventSource capture
ConnectWith(j, limit) ==
    /\ ~Has(conns[j]) \/ conns[j].status = "connected"
    /\ conns' = [conns EXCEPT ![j] = Connect(conns[j], orph[j], now).c]
    /\ connOptions' = [connOptions EXCEPT ![j] =
                         IF Has(conns[j]) THEN @
                         ELSE [given |-> limit, es |-> limit, rt |-> @.rt]]
    /\ failures' = [failures EXCEPT ![j] = IF Has(conns[j]) THEN @ ELSE 0]
    /\ lastCall' = [op |-> "connect", id |-> j, ret |-> TRUE,
                    found |-> GetConnectionStatus(conns[j])]
    /\ UNCHANGED <<batchVars, routed, heardVars, storeVars, now, providerVars, orph>>

\* eventSource.onerror: handleConnectionError with the options the callback
\* captured, which the reconnect timer's callback captures in turn
OnErrorWith(j) ==
    /\ Has(conns[j])
    /\ conns[j].es # "none"
    /\ conns' = [conns EXCEPT ![j] =
                   HandleConnectionErrorWith(@, orph[j], connOptions[j].es).c]
    /\ connOptions' = [connOptions EXCEPT ![j].rt = connOptions[j].es]
    /\ CountFailure(j)
    /\ lastCall' = NoCall
    /\ UNCHANGED <<batchVars, routed, heardVars, storeVars, now, providerVars, orph>>

\* the heartbeat timer fires: handleConnectionError with this.options
HeartbeatTimeoutWith(j) ==
    /\ Has(conns[j])
    /\ conns[j].hb
    /\ conns' = [conns EXCEPT ![j] =
                   HandleConnectionErrorWith(@, orph[j], maxRetries).c]
    /\ connOptions' = [connOptions EXCEPT ![j].rt = maxRetries]
    /\ CountFailure(j)
    /\ lastCall' = NoCall
    /\ UNCHANGED <<batchVars, routed, heardVars, storeVars, now, providerVars, orph>>

\* the reconnect timer fires: establishConnection with the options its
\* callback captured
ReconnectFireWith(j) ==
    /\ Has(conns[j])
    /\ conns[j].rt
    /\ conns' = [conns EXCEPT ![j] =
                   EstablishConnection([@ EXCEPT !.rt = FALSE], orph[j]).c]
    /\ connOptions' = [connOptions EXCEPT ![j].es = connOptions[j].rt]
    /\ lastCall' = NoCall
    /\ UNCHANGED <<batchVars, routed, heardVars, storeVars, now, providerVars, orph, failures>>

NextHeartbeat ==
    \/ \E j \in JobIds, limit \in RetryLimits : ConnectWith(j, limit)
    \/ \E j \in JobIds : DisconnectCall(j)
    \/ \E j \in JobIds : OnOpen(j)
    \/ \E j \in JobIds : OnErrorWith(j)
    \/ \E j \in JobIds : HeartbeatTimeoutWith(j)
    \/ \E j \in JobIds : ReconnectFireWith(j)
    \/ \E j \in JobIds, type \in MessageTypes : OnMessageUnheard(j, TRUE, type)

SpecHeartbeat == Init /\ [][NextHeartbeat]_vars

\* C19: a heartbeat message on a connected entry leaves its heartbeat timer
\* armed; when the heartbeat timer fires, the EventSource is closed and the
\* entry changes as handleConnectionError changes it under the retry limit
\* that was given to connect.
C19_HeartbeatTimeoutUsesGivenLimit ==
    [][\A j \in JobIds :
         /\ (/\ OnMessageUnheard(j, TRUE, "heartbeat")
             /\ conns[j].status = "connected") => conns'[j].hb
         /\ HeartbeatTimeoutWith(j) =>
              /\ conns'[j].es = "none"
              /\ ~conns'[j].hb
              /\ conns'[j] = HandleConnectionErrorWith(
                                 conns[j], orph[j], connOptions[j].given).c]_vars

----------------------------------------------------------------------------
(* Connection manager: the message router *)

\* the kinds of value of the first three properties of a progress message
\* and of its progress property
TextValues == {"undefined", "empty", "text"}

ProgressValues == {"undefined", "text", "zero", "number"}

\* data.type, "undefined" when the object has no type
DataTypes == MessageTypes \cup {"undefined"}

\* the messages that arrive: unparsable text, the JSON text null, an object of
\* a type other than progress, and progress objects: complete ones, ones
\* with one property missing or of another kind, and one with no property
Messages ==
    {Msg(p, "undefined", "undefined", "undefined", "undefined", "undefined") :
        p \in {"throws", "null"}}
    \cup {Msg("object", t, "undefined", "undefined", "undefined", "undefined") :
            t \in DataTypes \ {"progress"}}
    \cup {Msg("object", "progress", "text", "text", "text", p) :
            p \in ProgressValues}
    \cup {Msg("object", "progress", r, "text", "text", "number") :
            r \in TextValues}
    \cup {Msg("object", "progress", "text", s, "text", "number") :
            s \in TextValues}
    \cup {Msg("object", "progress", "text", "text", st, "zero") :
            st \in TextValues}
    \cup {Msg("object", "progress", "undefined", "undefined", "undefined",
               "undefined")}

\* the value is truthy in JavaScript
Truthy(v) == v \in {"text", "number"}

\* isValidProgressEvent without the test of typeof data.progress
IsValidProgressEventUntyped(data) ==
    /\ Truthy(data.requestId)
    /\ Truthy(data.scanId)
    /\ Truthy(data.status)

\* isValidProgressEvent
IsValidProgressEvent(data) ==
    /\ Truthy(data.requestId)
    /\ Truthy(data.scanId)
    /\ Truthy(data.status)
    /\ data.progress \in {"zero", "number"}

\* what the switch of onmessage emits as 'progress' for msg; JSON.parse
\* throwing and data.type of null throwing both end in the catch
Emitted(msg) ==
    IF msg.parse = "object" /\ msg.type = "progress"
       /\ IsValidProgressEvent(msg)
    THEN msg ELSE NoData

\* eventSource.onmessage of an open EventSource of j: lastActivity is written
\* before JSON.parse; the try/catch around the body lets no exception out
OnMessage(j, cur, msg) ==
    /\ cur \in OpenSources(j)
    /\ conns' = [conns EXCEPT ![j] =
                   IF msg.parse = "object" /\ msg.type = "heartbeat"
                   THEN StartHeartbeatTimer(Touch(@, cur, now))
                   ELSE Touch(@, cur, now)]
    /\ routed' = [id |-> j, data |-> Emitted(msg), escaped |-> FALSE]
    /\ lastCall' = NoCall
    /\ UNCHANGED <<batchVars, now, providerVars, connOptions, heardVars, storeVars, orph,
                   failures>>

NextRouter ==
    \/ \E j \in JobIds : ConnectCall(j)
    \/ \E j \in JobIds : DisconnectCall(j)
    \/ \E j \in JobIds : OnOpen(j)
    \/ \E j \in JobIds, x \in OrphanSources : OnOpenOrphan(j, x)
    \/ \E j \in JobIds, cur \in BOOLEAN, msg \in Messages : OnMessage(j, cur, msg)

SpecRouter == Init /\ [][NextRouter]_vars

\* C20: a message is emitted as 'progress' only if it is a progress object
\* whose requestId and scanId are not empty, whose status is defined and
\* whose progress is a number; no message changes the status of a
\* connection, and no exception leaves onmessage.
C20_OnlyValidProgressForwarded ==
    [][\A j \in JobIds, cur \in BOOLEAN, msg \in Messages :
         OnMessage(j, cur, msg) =>
           /\ ~routed'.escaped
           /\ \A k \in JobIds : conns'[k].status = conns[k].status
           /\ routed'.data # NoData =>
                /\ routed'.data = msg
                /\ msg.parse = "object"
                /\ msg.type = "progress"
                /\ msg.requestId \notin {"undefined", "empty"}
                /\ msg.scanId \notin {"undefined", "empty"}
                /\ msg.status # "undefined"
                /\ msg.progress \in {"zero", "number"}]_vars

\* a progress message with progress 0 has been emitted on a connected entry
C20_Witness ==
    /\ routed.id = "a"
    /\ routed.data # NoData
    /\ routed.data.progress = "zero"
    /\ conns["a"].status = "connected"

----------------------------------------------------------------------------
(* Connection manager: listeners *)

\* EventEmitter.emit calls the listeners of the event synchronously in
\* registration order; an exception of a listener leaves emit at once.
\* The listeners emit calls, by their position:
RECURSIVE Called(_, _)
Called(ls, i) ==
    IF i > Len(ls) THEN <<>>
    ELSE IF ls[i] THEN <<i>>
    ELSE <<i>> \o Called(ls, i + 1)

\* the call emit(ev, ...)
EmitterEmit(ev) ==
    [event |-> ev, registered |-> Len(listeners[ev]),
     called |-> Called(listeners[ev], 1)]

\* emit(ev, ...) throws: a listener throws, or the event is 'error' and has
\* no listener
Throwing(ev) ==
    \/ \E i \in 1..Len(listeners[ev]) : listeners[ev][i]
    \/ ev = "error" /\ Len(listeners[ev]) = 0

\* handleConnectionError with listeners: emitStatusChange('reconnecting')
\* comes before the setTimeout of the reconnect, emitStatusChange('error')
\* before emit('error')
HandleConnectionErrorHeard(c, o) ==
    IF ~Has(c) THEN Pair(c, o)
    ELSE IF Throwing("statusChange")
         THEN Pair([HandleConnectionError(c, o).c EXCEPT !.rt = FALSE], o)
         ELSE HandleConnectionError(c, o)

\* the last emit of handleConnectionError
ErrorEmit(c) ==
    IF ~Has(c) THEN invoked
    ELSE IF c.retryCount < maxRetries \/ Throwing("statusChange")
         THEN EmitterEmit("statusChange")
         ELSE EmitterEmit("error")

\* establishConnection with listeners: emitStatusChange('connecting') is
\* inside the try, whose catch calls handleConnectionError
EstablishConnectionHeard(c, o) ==
    IF ~Has(c) THEN Pair(c, o)
    ELSE IF Throwing("statusChange")
         THEN HandleConnectionErrorHeard(EstablishConnection(c, o).c,
                                         EstablishConnection(c, o).o)
         ELSE EstablishConnection(c, o)

\* manager.on(ev, listener), as in the effect of useSSE
On(ev, throws) ==
    /\ Len(listeners[ev]) < MaxListeners
    /\ listeners' = [listeners EXCEPT ![ev] = Append(@, throws)]
    /\ UNCHANGED storeVars
    /\ UNCHANGED <<batchVars, now, sseVars, providerVars, connOptions, routed,
                   invoked>>

\* connect(j) for an id that has no entry or a connected one
ConnectHeard(j) ==
    /\ ~Has(conns[j]) \/ conns[j].status = "connected"
    /\ conns' = [conns EXCEPT ![j] =
                   IF Has(@) THEN @
                   ELSE EstablishConnectionHeard(NewConnection(now),
                                                 orph[j]).c]
    /\ invoked' = IF Has(conns[j]) THEN invoked ELSE EmitterEmit("statusChange")
    /\ UNCHANGED storeVars
    /\ failures' = [failures EXCEPT ![j] = IF Has(conns[j]) THEN @ ELSE 0]
    /\ lastCall' = [op |-> "connect", id |-> j, ret |-> TRUE,
                    found |-> GetConnectionStatus(conns[j])]
    /\ UNCHANGED <<batchVars, now, providerVars, connOptions, routed,
                   listeners, orph>>

\* disconnect(j): emitStatusChange('disconnected') is its last statement
DisconnectHeard(j) ==
    /\ conns' = [conns EXCEPT ![j] = Disconnect(@, orph[j]).c]
    /\ invoked' = IF Has(conns[j]) THEN EmitterEmit("statusChange") ELSE invoked
    /\ UNCHANGED storeVars
    /\ failures' = [failures EXCEPT ![j] = 0]
    /\ lastCall' = [op |-> "disconnect", id |-> j, ret |-> FALSE,
                    found |-> GetConnectionStatus(conns[j])]
    /\ UNCHANGED <<batchVars, now, providerVars, connOptions, routed,
                   listeners, orph>>

\* eventSource.onopen: emitStatusChange('connected') comes before
\* startHeartbeatTimer
OnOpenHeard(j) ==
    /\ Has(conns[j])
    /\ conns[j].es = "connecting"
    /\ conns' = [conns EXCEPT ![j] =
                   [@ EXCEPT !.es = "open", !.status = "connected",
                             !.retryCount = 0, !.lastActivity = now,
                             !.hb = ~Throwing("statusChange")]]
    /\ invoked' = EmitterEmit("statusChange")
    /\ UNCHANGED storeVars
    /\ failures' = [failures EXCEPT ![j] = 0]
    /\ lastCall' = NoCall
    /\ UNCHANGED <<batchVars, now, providerVars, connOptions, routed,
                   listeners, orph>>

\* eventSource.onerror
OnErrorHeard(j) ==
    /\ Has(conns[j])
    /\ conns[j].es # "none"
    /\ conns' = [conns EXCEPT ![j] = HandleConnectionErrorHeard(@, orph[j]).c]
    /\ invoked' = ErrorEmit(conns[j])
    /\ UNCHANGED storeVars
    /\ CountFailure(j)
    /\ lastCall' = NoCall
    /\ UNCHANGED <<batchVars, now, providerVars, connOptions, routed,
                   listeners, orph>>

\* the heartbeat timer fires
HeartbeatTimeoutHeard(j) ==
    /\ Has(conns[j])
    /\ conns[j].hb
    /\ conns' = [conns EXCEPT ![j] = HandleConnectionErrorHeard(@, orph[j]).c]
    /\ invoked' = ErrorEmit(conns[j])
    /\ UNCHANGED storeVars
    /\ CountFailure(j)
    /\ lastCall' = NoCall
    /\ UNCHANGED <<batchVars, now, providerVars, connOptions, routed,
                   listeners, orph>>

\* the reconnect timer fires
ReconnectFireHeard(j) ==
    /\ Has(conns[j])
    /\ conns[j].rt
    /\ conns' = [conns EXCEPT ![j] =
                   EstablishConnectionHeard([@ EXCEPT !.rt = FALSE],
                                            orph[j]).c]
    /\ invoked' = EmitterEmit("statusChange")
    /\ UNCHANGED storeVars
    /\ lastCall' = NoCall
    /\ UNCHANGED <<batchVars, now, providerVars, connOptions, routed,
                   listeners, orph, failures>>

\* eventSource.onmessage: emit('progress') is inside the try
OnMessageHeard(j, msg) ==
    /\ Has(conns[j])
    /\ conns[j].es = "open"
    /\ conns' = [conns EXCEPT ![j] =
                   IF msg.parse = "object" /\ msg.type = "heartbeat"
                   THEN StartHeartbeatTimer(Touch(@, TRUE, now))
                   ELSE Touch(@, TRUE, now)]
    /\ routed' = [id |-> j, data |-> Emitted(msg), escaped |-> FALSE]
    /\ invoked' = IF Emitted(msg) # NoData THEN EmitterEmit("progress") ELSE invoked
    /\ UNCHANGED storeVars
    /\ lastCall' = NoCall
    /\ UNCHANGED <<batchVars, now, providerVars, connOptions, listeners, orph,
                   failures>>

NextListeners ==
    \/ \E ev \in EventNames, throws \in BOOLEAN : On(ev, throws)
    \/ \E j \in Submitted : ConnectHeard(j)
    \/ \E j \in Submitted : DisconnectHeard(j)
    \/ \E j \in Submitted : OnOpenHeard(j)
    \/ \E j \in Submitted : OnErrorHeard(j)
    \/ \E j \in Submitted : HeartbeatTimeoutHeard(j)
    \/ \E j \in Submitted : ReconnectFireHeard(j)
    \/ \E j \in Submitted, msg \in Messages : OnMessageHeard(j, msg)

SpecListeners == Init /\ [][NextListeners]_vars

\* C21: every emit calls all the listeners registered for the event, in
\* registration order, also when one of them throws.
C21_AllListenersInvokedInOrder ==
    /\ Len(invoked.called) = invoked.registered
    /\ \A i \in 1..Len(invoked.called) : invoked.called[i] = i

----------------------------------------------------------------------------
(* ScanningProvider: connections after a snapshot *)

\* C22: when refreshJobs has applied a snapshot, a job that is RUNNING in it
\* has an entry, an entry that was connecting, reconnecting or connected has
\* not been opened again, and an id that had an entry and is absent from the
\* snapshot or not RUNNING in it has none.
C22_SnapshotReconcilesConnections ==
    [][\A s \in snaps : \A j \in Submitted :
         FetchApply(s) =>
           /\ Payload(s, now)[j].status = "RUNNING" =>
                /\ Has(conns'[j])
                /\ Has(conns[j]) =>
                     /\ conns'[j] = conns[j]
                     /\ orph'[j] = orph[j]
           /\ (Has(conns[j]) /\ Payload(s, now)[j].status # "RUNNING") =>
                ~Has(conns'[j])]_vars

----------------------------------------------------------------------------
(* ScanningProvider: the polling interval and the cleanup interval *)

\* In this specification the clock stands at `now' and every stored time
\* moves back by one when a second passes; an age beyond MaxAge is kept as
\* MaxAge, which no comparison of the reducer tells from a larger one.
MaxAge == SlowPoll + 1

Back(t) == IF t - 1 < now - MaxAge THEN now - MaxAge ELSE t - 1

\* one second passes: no interval is due, no 2 s timer is due, and the
\* responses of /api/scans/jobs arrive within the second
Elapse ==
    /\ pollLeft > 0
    /\ pruneLeft > 0
    /\ snaps = {}
    /\ \A j \in JobIds : \A d \in grace[j] : d > now
    /\ pollLeft' = pollLeft - 1
    /\ pruneLeft' = pruneLeft - 1
    /\ jobs' = [j \in JobIds |->
                  IF jobs[j] = NoJob THEN NoJob
                  ELSE [jobs[j] EXCEPT !.lastUpdate = Back(@)]]
    /\ grace' = [j \in JobIds |-> {d - 1 : d \in grace[j]}]
    /\ chan' = [j \in JobIds |->
                  [i \in 1..Len(chan[j]) |->
                      [chan[j][i] EXCEPT !.timestamp = Back(@)]]]
    /\ UNCHANGED <<batchVars, connOptions, routed, heardVars, storeVars, now, sseVars,
                   srv, snaps, queuedScans, prevJobs, completions,
                   onScanComplete, pollEvery, isPolling, poller>>

\* the polling interval fires: refreshJobs up to the await of fetch
PollFire(listsFinished) ==
    /\ pollLeft = 0
    /\ pollLeft' = pollEvery
    /\ snaps' = snaps \cup {Listing(listsFinished)}
    /\ UNCHANGED <<batchVars, connOptions, routed, heardVars, storeVars, now, sseVars,
                   srv, chan, jobs, queuedScans, prevJobs, completions,
                   onScanComplete, grace, pollEvery, pruneLeft, isPolling,
                   poller>>

\* the cleanup interval fires: dispatch AUTO_CLEANUP, then the effects
PruneFire ==
    /\ pruneLeft = 0
    /\ pruneLeft' = CleanupEvery
    /\ Commit(AUTO_CLEANUP(jobs, now), conns, orph, chan)
    /\ UNCHANGED <<srv, snaps, queuedScans, onScanComplete>>
    /\ PollingEffect

NextPolling ==
    \/ Elapse
    \/ \E b \in BOOLEAN : PollFire(b)
    \/ PruneFire
    \/ \E b \in BOOLEAN : FetchStart(b)
    \/ \E j \in Submitted : AddScanJob(j)
    \/ \E j \in Submitted, st \in {"QUEUED", "RUNNING"} : SrvSubmit(j, st)
    \/ \E j \in Submitted : SrvStart(j)
    \/ \E j \in Submitted, st \in Terminal : SrvFinish(j, st)
    \/ \E s \in snaps : FetchFail(s)
    \/ \E s \in snaps : FetchApply(s)
    \/ \E j \in Submitted, d \in 0..2 : GraceFire(j, d)
    \/ \E j \in Submitted : Deliver(j)
    \/ \E j \in Submitted : OnOpen(j)

SpecPolling == Init /\ [][NextPolling]_vars

\* The provider with nothing but its own timers asking for snapshots: no
\* caller of refreshJobs from outside.
NextTimers ==
    \/ Elapse
    \/ \E b \in BOOLEAN : PollFire(b)
    \/ PruneFire
    \/ \E j \in Submitted : AddScanJob(j)
    \/ \E j \in Submitted, st \in {"QUEUED", "RUNNING"} : SrvSubmit(j, st)
    \/ \E j \in Submitted : SrvStart(j)
    \/ \E j \in Submitted, st \in Terminal : SrvFinish(j, st)
    \/ \E s \in snaps : FetchFail(s)
    \/ \E s \in snaps : FetchApply(s)
    \/ \E j \in Submitted, d \in 0..2 : GraceFire(j, d)
    \/ \E j \in Submitted : Deliver(j)
    \/ \E j \in Submitted : OnOpen(j)

\* time passes, the intervals and timers fire when they are due, and every
\* fetch is answered
SpecTimers ==
    /\ Init /\ [][NextTimers]_vars
    /\ WF_vars(Elapse)
    /\ WF_vars(\E b \in BOOLEAN : PollFire(b))
    /\ WF_vars(PruneFire)
    /\ WF_vars(\E s \in snaps : FetchFail(s) \/ FetchApply(s))
    /\ WF_vars(\E j \in Submitted, d \in 0..2 : GraceFire(j, d))

\* C23: the polling interval has the period 3 s when a job is RUNNING or a
\* queued entry exists and 30 s otherwise, and isPolling is true exactly in
\* the first case.
C23_PollPeriodFollowsStore ==
    /\ pollEvery = IF ShouldPoll(jobs, queuedScans) THEN FastPoll ELSE SlowPoll
    /\ isPolling = ShouldPoll(jobs, queuedScans)

\* a snapshot has brought a queued entry and no RUNNING job
C23_Witness ==
    /\ queuedScans # {}
    /\ \A j \in JobIds : jobs[j].status # "RUNNING"
    /\ pollEvery = FastPoll
    /\ isPolling

\* C24: the polling interval fires again and again.
C24_PollKeepsFiring == []<><<\E b \in BOOLEAN : PollFire(b)>>_vars

----------------------------------------------------------------------------
(* Batch pipeline: counters and result records *)

\* C25: the persisted counters count only targets whose result record is
\* persisted in the matching state: failedImages at most the records that
\* are FAILED, scannedImages at most the records that are SUCCESS.
C25_CountersMatchResultRecords ==
    hist.exists =>
        /\ hist.failedImages <=
               Cardinality({i \in DOMAIN results : results[i] = "FAILED"})
        /\ hist.scannedImages <=
               Cardinality({i \in DOMAIN results : results[i] = "SUCCESS"})

----------------------------------------------------------------------------
(* Connection manager: after disconnect *)

\* C26: while the table holds no entry for a requestId (from disconnect to
\* the next connect) no EventSource of it is open and no message of it is
\* emitted as 'progress'.
C26_DisconnectStopsDelivery ==
    [][\A j \in JobIds :
         ~Has(conns[j]) =>
           /\ OpenSources(j) = {}
           /\ \A cur \in BOOLEAN, msg \in Messages :
                OnMessage(j, cur, msg) => routed'.data = NoData]_vars

----------------------------------------------------------------------------
(* Connection manager: the reconnect delay *)

\* the values of options.retryInterval and options.maxRetries that callers
\* pass to connect; with 20000 the second delay reaches the cap, with 1000
\* the sixth
RetryIntervals == {500, DefaultRetryInterval, 20000}

LongRetryLimit == 6

BackoffLimits == {maxRetries, LongRetryLimit}

\* what handleConnectionError(requestId, options) with options.retryInterval
\* = interval has scheduled for the entry c it leaves
Scheduled(b, interval, c) ==
    IF c.rt
    THEN [b EXCEPT !.rt = interval, !.used = interval,
                   !.delay = ReconnectDelay(interval, c.retryCount),
                   !.k = @ + 1]
    ELSE [b EXCEPT !.used = interval, !.delay = 0]

\* connect(j, {retryInterval: interval, maxRetries: limit}) for an id that
\* has no entry or a connected one
ConnectBackoff(j, interval, limit) ==
    /\ ~Has(conns[j]) \/ conns[j].status = "connected"
    /\ conns' = [conns EXCEPT ![j] = Connect(conns[j], orph[j], now).c]
    /\ connOptions' = [connOptions EXCEPT ![j] =
                         IF Has(conns[j]) THEN @
                         ELSE [given |-> limit, es |-> limit, rt |-> @.rt]]
    /\ backoff' = [backoff EXCEPT ![j] =
                     IF Has(conns[j]) THEN @
                     ELSE [@ EXCEPT !.es = interval, !.delay = 0, !.k = 0]]
    /\ failures' = [failures EXCEPT ![j] = IF Has(conns[j]) THEN @ ELSE 0]
    /\ lastCall' = [op |-> "connect", id |-> j, ret |-> TRUE,
                    found |-> GetConnectionStatus(conns[j])]
    /\ UNCHANGED <<batchVars, routed, heardVars, state, now, providerVars, orph>>

\* eventSource.onopen: retryCount = 0
OnOpenBackoff(j) ==
    /\ Has(conns[j])
    /\ conns[j].es = "connecting"
    /\ conns' = [conns EXCEPT ![j] =
                   [@ EXCEPT !.es = "open", !.status = "connected",
                             !.retryCount = 0, !.lastActivity = now,
                             !.hb = TRUE]]
    /\ backoff' = [backoff EXCEPT ![j].k = 0, ![j].delay = 0]
    /\ failures' = [failures EXCEPT ![j] = 0]
    /\ lastCall' = NoCall
    /\ UNCHANGED <<batchVars, routed, heardVars, state, now, providerVars, orph,
                   connOptions>>

\* eventSource.onerror: handleConnectionError with the options the callback
\* captured
OnErrorBackoff(j) ==
    /\ Has(conns[j])
    /\ conns[j].es # "none"
    /\ conns' = [conns EXCEPT ![j] =
                   HandleConnectionErrorWith(@, orph[j], connOptions[j].es).c]
    /\ connOptions' = [connOptions EXCEPT ![j].rt = connOptions[j].es]
    /\ backoff' = [backoff EXCEPT ![j] = Scheduled(@, @.es, conns'[j])]
    /\ CountFailure(j)
    /\ lastCall' = NoCall
    /\ UNCHANGED <<batchVars, routed, heardVars, state, now, providerVars, orph>>

\* the heartbeat timer fires: handleConnectionError with this.options
HeartbeatTimeoutBackoff(j) ==
    /\ Has(conns[j])
    /\ conns[j].hb
    /\ conns' = [conns EXCEPT ![j] =
                   HandleConnectionErrorWith(@, orph[j], maxRetries).c]
    /\ connOptions' = [connOptions EXCEPT ![j].rt = maxRetries]
    /\ backoff' = [backoff EXCEPT ![j] =
                     Scheduled(@, DefaultRetryInterval, conns'[j])]
    /\ CountFailure(j)
    /\ lastCall' = NoCall
    /\ UNCHANGED <<batchVars, routed, heardVars, state, now, providerVars, orph>>

\* the reconnect timer fires after its delay: establishConnection with the
\* options its callback captured
ReconnectFireBackoff(j) ==
    /\ Has(conns[j])
    /\ conns[j].rt
    /\ conns' = [conns EXCEPT ![j] =
                   EstablishConnection([@ EXCEPT !.rt = FALSE], orph[j]).c]
    /\ connOptions' = [connOptions EXCEPT ![j].es = connOptions[j].rt]
    /\ backoff' = [backoff EXCEPT ![j].es = backoff[j].rt, ![j].delay = 0]
    /\ lastCall' = NoCall
    /\ UNCHANGED <<batchVars, routed, heardVars, state, now, providerVars, orph,
                   failures>>

NextBackoff ==
    \/ \E j \in JobIds, interval \in RetryIntervals, limit \in BackoffLimits :
          ConnectBackoff(j, interval, limit)
    \/ \E j \in JobIds : DisconnectCall(j)
    \/ \E j \in JobIds : OnOpenBackoff(j)
    \/ \E j \in JobIds : OnErrorBackoff(j)
    \/ \E j \in JobIds : HeartbeatTimeoutBackoff(j)
    \/ \E j \in JobIds : ReconnectFireBackoff(j)

SpecBackoff == Init /\ [][NextBackoff]_vars

----------------------------------------------------------------------------
(* Connection manager: the connected state *)

\* C28: an entry whose status is connected has retryCount 0 and its
\* heartbeat timer armed.
C28_ConnectedHasFullBudget ==
    \A j \in JobIds :
        (Has(conns[j]) /\ conns[j].status = "connected")
            => conns[j].retryCount = 0 /\ conns[j].hb

----------------------------------------------------------------------------
(* ScanningProvider: scanningReducer, on the whole state *)

\* a || b for a string field: '' and undefined are falsy
OrElse(a, b) == IF a \in {"", "undefined"} THEN b ELSE a

\* a || b for a timestamp; 0 stands for a missing or empty one
OrElseTime(a, b) == IF a = 0 THEN b ELSE a

\* the timestamps of progress events and Date.now() at a dispatch, seconds
EventTimes == {1, 10}

DispatchTimesStore == {10, 40}

\* the progress events that reach the reducer: a step of a running scan, its
\* success, its failure
ProgressEvents ==
    {[requestId |-> j, scanId |-> "scan-1", status |-> k.status,
      progress |-> k.progress, step |-> k.step, error |-> k.error,
      timestamp |-> t] :
        j \in JobIds, t \in EventTimes,
        k \in {[status |-> "RUNNING", progress |-> 50, step |-> "scanning",
                error |-> "undefined"],
               [status |-> "SUCCESS", progress |-> 100, step |-> "undefined",
                error |-> "undefined"],
               [status |-> "FAILED", progress |-> 50, step |-> "undefined",
                error |-> "timeout"]}}

\* the payloads of ADD_SCAN_JOB: a ScanJob without startTime and lastUpdate
AddPayloads ==
    {[requestId |-> j, scanId |-> "scan-1", imageId |-> "image-1",
      imageName |-> n, status |-> "RUNNING", progress |-> 0,
      step |-> "undefined", error |-> "undefined"] :
        j \in JobIds, n \in {"undefined", "nginx"}}

\* the job lists refreshJobs dispatches with SET_JOBS at the instant t
ListedJob(j, st, t) ==
    [requestId |-> j, scanId |-> "scan-1", imageId |-> "image-1",
     imageName |-> "nginx", status |-> st,
     progress |-> IF st = "SUCCESS" THEN 100 ELSE 50,
     step |-> "undefined", error |-> "undefined",
     startTime |-> 1, lastUpdate |-> t]

JobLists(t) ==
    {[j \in JobIds |-> IF j \in ids THEN ListedJob(j, st, t) ELSE NoJob] :
        ids \in SUBSET JobIds, st \in {"RUNNING", "SUCCESS"}}

\* the queued lists refreshJobs dispatches with SET_QUEUED_SCANS, by
\* requestId
QueuedLists == {{}, {"b"}}

\* updatedJob of UPDATE_SCAN_PROGRESS taking startTime from the event
updatedJobRestarted(existingJob, event) ==
    [requestId |-> event.requestId,
     scanId |-> event.scanId,
     imageId |-> IF existingJob = NoJob THEN ""
                 ELSE OrElse(existingJob.imageId, ""),
     imageName |-> IF existingJob = NoJob THEN "undefined"
                   ELSE existingJob.imageName,
     status |-> event.status,
     progress |-> event.progress,
     step |-> event.step,
     error |-> event.error,
     startTime |-> event.timestamp,
     lastUpdate |-> event.timestamp]

\* updatedJob of UPDATE_SCAN_PROGRESS
updatedJob(existingJob, event) ==
    [requestId |-> event.requestId,
     scanId |-> event.scanId,
     imageId |-> IF existingJob = NoJob THEN ""
                 ELSE OrElse(existingJob.imageId, ""),
     imageName |-> IF existingJob = NoJob THEN "undefined"
                   ELSE existingJob.imageName,
     status |-> event.status,
     progress |-> event.progress,
     step |-> event.step,
     error |-> event.error,
     startTime |-> IF existingJob = NoJob THEN event.timestamp
                   ELSE OrElseTime(existingJob.startTime, event.timestamp),
     lastUpdate |-> event.timestamp]

\* newJob of ADD_SCAN_JOB at the instant t
newJob(payload, t) ==
    [requestId |-> payload.requestId, scanId |-> payload.scanId,
     imageId |-> payload.imageId, imageName |-> payload.imageName,
     status |-> payload.status, progress |-> payload.progress,
     step |-> payload.step, error |-> payload.error,
     startTime |-> t, lastUpdate |-> t]

\* scanningReducer(st, action) with Date.now() = t
scanningReducer(st, action, t) ==
    CASE action.type = "UPDATE_SCAN_PROGRESS" ->
           [st EXCEPT !.jobs[action.payload.requestId] =
                          updatedJob(@, action.payload)]
      [] action.type = "ADD_SCAN_JOB" ->
           [st EXCEPT !.jobs[action.payload.requestId] =
                          newJob(action.payload, t)]
      [] action.type = "REMOVE_SCAN_JOB" ->
           [st EXCEPT !.jobs[action.payload] = NoJob]
      [] action.type = "SET_JOBS" ->
           [st EXCEPT !.jobs = action.payload, !.lastFetchTime = t]
      [] action.type = "SET_QUEUED_SCANS" ->
           [st EXCEPT !.queuedScans = action.payload]
      [] action.type = "CLEAR_COMPLETED_JOBS" ->
           [st EXCEPT !.jobs = CLEAR_COMPLETED_JOBS(@)]
      [] action.type = "AUTO_CLEANUP" ->
           [st EXCEPT !.jobs = AUTO_CLEANUP(@, t)]
      [] action.type = "SET_POLLING" ->
           [st EXCEPT !.isPolling = action.payload]
      [] OTHER -> st

\* what a dispatch leaves alone
nonStoreVars == <<batchVars, now, sseVars, providerVars, connOptions, routed,
                  heardVars, backoff>>

Action(type, payload) == [type |-> type, payload |-> payload]

\* the dispatches of the provider; the cases that do not read the clock are
\* dispatched with t = 0
DispatchUpdateScanProgress(e) ==
    /\ state' = scanningReducer(state, Action("UPDATE_SCAN_PROGRESS", e), 0)
    /\ UNCHANGED nonStoreVars

DispatchAddScanJob(p, t) ==
    /\ state' = scanningReducer(state, Action("ADD_SCAN_JOB", p), t)
    /\ UNCHANGED nonStoreVars

DispatchRemoveScanJob(j) ==
    /\ state' = scanningReducer(state, Action("REMOVE_SCAN_JOB", j), 0)
    /\ UNCHANGED nonStoreVars

DispatchSetJobs(l, t) ==
    /\ state' = scanningReducer(state, Action("SET_JOBS", l), t)
    /\ UNCHANGED nonStoreVars

DispatchSetQueuedScans(q) ==
    /\ state' = scanningReducer(state, Action("SET_QUEUED_SCANS", q), 0)
    /\ UNCHANGED nonStoreVars

DispatchClearCompletedJobs ==
    /\ state' = scanningReducer(state, Action("CLEAR_COMPLETED_JOBS", "undefined"), 0)
    /\ UNCHANGED nonStoreVars

DispatchCleanup(t) ==
    /\ state' = scanningReducer(state, Action("AUTO_CLEANUP", "undefined"), t)
    /\ UNCHANGED nonStoreVars

DispatchSetPolling(b) ==
    /\ state' = scanningReducer(state, Action("SET_POLLING", b), 0)
    /\ UNCHANGED nonStoreVars

NextStore ==
    \/ \E e \in ProgressEvents : DispatchUpdateScanProgress(e)
    \/ \E p \in AddPayloads, t \in EventTimes : DispatchAddScanJob(p, t)
    \/ \E j \in JobIds : DispatchRemoveScanJob(j)
    \/ \E t \in DispatchTimesStore : \E l \in JobLists(t) : DispatchSetJobs(l, t)
    \/ \E q \in QueuedLists : DispatchSetQueuedScans(q)
    \/ DispatchClearCompletedJobs
    \/ \E t \in DispatchTimesStore : DispatchCleanup(t)
    \/ \E b \in BOOLEAN : DispatchSetPolling(b)

SpecStore == Init /\ [][NextStore]_vars

\* C29: UPDATE_SCAN_PROGRESS for an existing job keeps its imageId,
\* imageName and startTime, takes status, progress, step and error from the
\* event and sets lastUpdate to the event's timestamp; for a requestId that
\* is not in the map it makes a job with imageId '' and no imageName whose
\* startTime is the event's timestamp; every other job, queuedScans and
\* isPolling are unchanged.
C29_UpdateScanProgressFrame ==
    [][\A e \in ProgressEvents :
         DispatchUpdateScanProgress(e) =>
           LET old == state.jobs[e.requestId]
               new == state'.jobs[e.requestId]
           IN  /\ new.status = e.status
               /\ new.progress = e.progress
               /\ new.step = e.step
               /\ new.error = e.error
               /\ new.lastUpdate = e.timestamp
               /\ new.requestId = e.requestId
               /\ old # NoJob => /\ new.imageId = old.imageId
                                 /\ new.imageName = old.imageName
                                 /\ new.startTime = old.startTime
               /\ old = NoJob => /\ new.imageId = ""
                                 /\ new.imageName = "undefined"
                                 /\ new.startTime = e.timestamp
               /\ \A j \in JobIds \ {e.requestId} :
                     state'.jobs[j] = state.jobs[j]
               /\ state'.queuedScans = state.queuedScans
               /\ state'.isPolling = state.isPolling
               /\ state'.lastFetchTime = state.lastFetchTime]_vars

\* a was added at 1 and a later event made it FAILED, keeping its image
\* and start; b was made from an event alone
C29_Witness ==
    /\ state.jobs["a"] # NoJob
    /\ state.jobs["a"].imageId = "image-1"
    /\ state.jobs["a"].imageName = "nginx"
    /\ state.jobs["a"].status = "FAILED"
    /\ state.jobs["a"].error = "timeout"
    /\ state.jobs["a"].startTime = 1
    /\ state.jobs["a"].lastUpdate = 10
    /\ state.jobs["b"] # NoJob
    /\ state.jobs["b"].imageId = ""
    /\ state.jobs["b"].startTime = 10
    /\ state.queuedScans = {"b"}

----------------------------------------------------------------------------
(* ScanningProvider: a snapshot that arrives after a push event *)

\* C30: a snapshot response that lists a job in a state the server left
\* before it sent what the store holds (an earlier status, or the same
\* status with less progress) leaves the stored status and progress of the
\* job as they are.
C30_StaleSnapshotKeepsNewerState ==
    [][\A s \in snaps, j \in Submitted :
         (/\ FetchApply(s)
          /\ jobs[j] # NoJob
          /\ s.job # NoJob
          /\ \/ Rank(jobs[j].status) > Rank(s.job.status)
             \/ /\ jobs[j].status = s.job.status
                /\ jobs[j].progress > s.job.progress)
         => /\ jobs'[j].status = jobs[j].status
            /\ jobs'[j].progress = jobs[j].progress]_vars

----------------------------------------------------------------------------
(* ScanningProvider: retention of finished jobs *)

\* C31: unless removeScanJob or clearCompletedJobs is called, a stored job
\* that is FAILED or CANCELLED stays in the store while less than 30 s have
\* passed since its lastUpdate, and a stored SUCCESS job while less than 5 s
\* have passed.
C31_FinishedJobKeptForItsWindow ==
    [][\A j \in Submitted :
         (/\ jobs[j] # NoJob
          /\ jobs[j].status \in Terminal
          /\ now' - jobs[j].lastUpdate <
                 (IF jobs[j].status = "SUCCESS" THEN 5 ELSE 30)
          /\ jobs'[j] = NoJob)
         => RemoveScanJob(j) \/ ClearCompletedJobs]_vars

----------------------------------------------------------------------------
(* ScanningProvider: the completion effect when a scan fails *)

\* The provider with a callback that may be registered, the server, snapshot
\* fetches and push events; nobody removes or clears jobs.
NextCompletion ==
    \/ Tick
    \/ \E j \in Submitted, st \in {"QUEUED", "RUNNING"} : SrvSubmit(j, st)
    \/ \E j \in Submitted : SrvStart(j)
    \/ \E j \in Submitted, st \in Terminal : SrvFinish(j, st)
    \/ \E b \in BOOLEAN : FetchStart(b)
    \/ \E s \in snaps : FetchFail(s)
    \/ \E s \in snaps : FetchApply(s)
    \/ \E j \in Submitted : AddScanJob(j)
    \/ SetOnScanComplete
    \/ \E j \in Submitted, d \in Instants \cup {t + 2 : t \in Instants} :
           GraceFire(j, d)
    \/ \E j \in Submitted : Deliver(j)
    \/ \E j \in Submitted : OnOpen(j)

SpecCompletion == Init /\ [][NextCompletion]_vars

\* C32: a step that changes the stored status of a job from RUNNING to
\* FAILED or CANCELLED removes the job's entry from the connection table in
\* that step, arms no grace timer and does not call the completion callback.
C32_FailureDisconnectsAtOnce ==
    [][\A j \in JobIds :
         (/\ jobs[j].status = "RUNNING"
          /\ jobs'[j].status \in {"FAILED", "CANCELLED"})
         => /\ ~Has(conns'[j])
            /\ grace'[j] = grace[j]
            /\ completions'[j] = completions[j]]_vars

\* a callback is registered, the scan was cancelled, the store holds it as
\* CANCELLED, and its connection is gone with no call and no timer
C32_Witness ==
    /\ onScanComplete
    /\ srv.status = "CANCELLED"
    /\ jobs["a"].status = "CANCELLED"
    /\ ~Has(conns["a"])
    /\ completions["a"] = 0
    /\ grace["a"] = {}

----------------------------------------------------------------------------
(* Batch pipeline: the status of the batch record *)

\* C33: the persisted status of a batch changes only from PENDING to RUNNING
\* and from RUNNING to COMPLETED, PARTIAL or FAILED, and once it is one of
\* these three no write changes its status or its counters.
C33_BatchStatusPath ==
    [][/\ (hist.exists /\ hist'.status # hist.status)
          => \/ hist.status = "PENDING" /\ hist'.status = "RUNNING"
             \/ hist.status = "RUNNING" /\ hist'.status \in TerminalBatch
       /\ (hist.exists /\ hist.status \in TerminalBatch)
          => /\ hist'.status = hist.status
             /\ hist'.scannedImages = hist.scannedImages
             /\ hist'.failedImages = hist.failedImages]_vars

\* C33 amended: the persisted status changes from PENDING to RUNNING, from
\* RUNNING to COMPLETED, PARTIAL or FAILED, or from PENDING to FAILED when
\* the write of RUNNING threw and the fault handler ran; once it is
\* COMPLETED, PARTIAL or FAILED no write changes the record.
C33_BatchStatusPathOrFault ==
    [][/\ (hist.exists /\ hist'.status # hist.status)
          => \/ hist.status = "PENDING" /\ hist'.status = "RUNNING"
             \/ hist.status = "RUNNING" /\ hist'.status \in TerminalBatch
             \/ /\ hist.status = "PENDING" /\ hist'.status = "FAILED"
                /\ run.pc = "handler"
       /\ (hist.exists /\ hist.status \in TerminalBatch) => hist' = hist]_vars

\* the write of RUNNING threw and the handler made the PENDING batch FAILED
C33_Witness ==
    /\ run.pc = "done"
    /\ run.faulted
    /\ run.idx = 0
    /\ hist.status = "FAILED"
    /\ hist.errorMessage

----------------------------------------------------------------------------
(* ScanningProvider: the polling interval timer and unmounting *)

\* the provider is unmounted: the cleanup functions of its effects run
Unmount ==
    /\ poller.mounted
    /\ poller' = [PollingCleanup(poller) EXCEPT !.mounted = FALSE]
    /\ UNCHANGED <<batchVars, connOptions, routed, heardVars, storeVars, now,
                   sseVars, srv, chan, snaps, jobs, queuedScans, prevJobs,
                   completions, onScanComplete, grace, pollEvery, pollLeft,
                   pruneLeft, isPolling>>

\* The provider of SpecTimers until it is unmounted; an unmounted provider
\* has no timer that fires, no listener and no dispatch that renders.
NextUnmount ==
    \/ poller.mounted /\ Elapse
    \/ poller.mounted /\ \E b \in BOOLEAN : PollFire(b)
    \/ poller.mounted /\ PruneFire
    \/ poller.mounted /\ \E j \in Submitted : AddScanJob(j)
    \/ \E j \in Submitted, st \in {"QUEUED", "RUNNING"} : SrvSubmit(j, st)
    \/ \E j \in Submitted : SrvStart(j)
    \/ \E j \in Submitted, st \in Terminal : SrvFinish(j, st)
    \/ poller.mounted /\ \E s \in snaps : FetchFail(s)
    \/ poller.mounted /\ \E s \in snaps : FetchApply(s)
    \/ poller.mounted /\ \E j \in Submitted, d \in 0..2 : GraceFire(j, d)
    \/ poller.mounted /\ \E j \in Submitted : Deliver(j)
    \/ \E j \in Submitted : OnOpen(j)
    \/ Unmount

SpecUnmount == Init /\ [][NextUnmount]_vars

\* C34: at most one interval timer of the polling effect is armed at any
\* time, and none once the provider is unmounted.
C34_OnePollTimer ==
    /\ poller.armed <= 1
    /\ ~poller.mounted => poller.armed = 0

\* the provider was unmounted while it polled every 3 s for a running job
C34_Witness ==
    /\ ~poller.mounted
    /\ poller.current = "cleared"
    /\ pollEvery = FastPoll
    /\ jobs["a"].status = "RUNNING"

----------------------------------------------------------------------------
(* ScanningProvider: the progress of a running job *)

\* C35: while the stored status of a job is RUNNING its stored progress
\* never decreases, whatever push events and snapshot replaces are applied,
\* and stays within 0..100.
C35_RunningProgressNeverDecreases ==
    [][\A j \in Submitted :
         (/\ jobs[j] # NoJob
          /\ jobs'[j] # NoJob
          /\ jobs[j].status = "RUNNING"
          /\ jobs'[j].status = "RUNNING")
         => /\ jobs'[j].progress >= jobs[j].progress
            /\ jobs'[j].progress \in 0..100]_vars

----------------------------------------------------------------------------
(* Connection manager: one transport and one reconnect timer per requestId *)

\* C36: for each requestId at most one EventSource is not closed and at
\* most one reconnect timer is pending, whatever the interleaving of
\* connect, disconnect, errors, heartbeat expiry and reconnect timers.
C36_OneTransportOneTimer ==
    \A j \in JobIds :
        /\ (IF Has(conns[j]) /\ conns[j].es # "none" THEN 1 ELSE 0)
               + Cardinality(orph[j].es) <= 1
        /\ (IF Has(conns[j]) /\ conns[j].rt THEN 1 ELSE 0) + orph[j].rt <= 1

----------------------------------------------------------------------------
(* scanningReducer: what AUTO_CLEANUP removes *)

\* C37: AUTO_CLEANUP removes a job only if its status is SUCCESS, FAILED or
\* CANCELLED and its retention window has elapsed; a stored QUEUED or
\* RUNNING job is never removed by it.
C37_AutoCleanupRemovesOnlyExpiredTerminal ==
    [][DispatchAutoCleanup =>
         \A j \in JobIds :
            (jobs[j] # NoJob /\ jobs'[j] = NoJob) =>
               /\ jobs[j].status \in Terminal
               /\ now - jobs[j].lastUpdate >=
                      (IF jobs[j].status = "SUCCESS" THEN 5 ELSE 30)]_vars

----------------------------------------------------------------------------
(* Connection manager: the entries of the connection table *)

\* C38: every entry has 0 <= retryCount <= maxRetries; a reconnecting entry
\* has no EventSource and a pending reconnect timer; an entry in status
\* error has no EventSource, no heartbeat timer and no reconnect timer; no
\* entry has status disconnected.
C38_ConnectionTableEntries ==
    \A j \in JobIds :
        Has(conns[j]) =>
            /\ conns[j].retryCount \in 0..maxRetries
            /\ conns[j].status = "reconnecting" =>
                   conns[j].es = "none" /\ conns[j].rt
            /\ conns[j].status = "error" =>
                   conns[j].es = "none" /\ ~conns[j].hb /\ ~conns[j].rt
            /\ conns[j].status # "disconnected"

----------------------------------------------------------------------------
(* POST execute: the response and the batch record *)

\* C39: once POST has responded, a response other than 202 means that no
\* history record was created and no background execution started, and a
\* created history record is reported with 202 and its totalImages.
C39_Non202MeansNoBatch ==
    post.pc = "done" =>
        IF post.status = 202
        THEN hist.exists /\ hist.totalImages = Len(post.images)
        ELSE ~hist.exists /\ run = NoRun

----------------------------------------------------------------------------
(* Progress messages and the job they name *)

\* onmessage of an open EventSource of j with a valid progress message whose
\* requestId property is r: the manager emits ('progress', j, data), the
\* hook hands both to onProgress, which dispatches UPDATE_SCAN_PROGRESS with
\* data alone
OnMessageNamed(j, r, st) ==
    /\ \E cur \in OpenSources(j) :
          Commit(UPDATE_SCAN_PROGRESS(jobs, Event(r, st, 50, now)),
                 [conns EXCEPT ![j] = Touch(@, cur, now)], orph, chan)
    /\ UNCHANGED <<srv, snaps, queuedScans, onScanComplete, pruneLeft>>
    /\ PollingEffect

NextChannel ==
    \/ Tick
    \/ \E j \in Submitted, st \in {"QUEUED", "RUNNING"} : SrvSubmit(j, st)
    \/ \E j \in Submitted : SrvStart(j)
    \/ \E j \in Submitted, st \in Terminal : SrvFinish(j, st)
    \/ \E b \in BOOLEAN : FetchStart(b)
    \/ \E s \in snaps : FetchFail(s)
    \/ \E s \in snaps : FetchApply(s)
    \/ \E j \in Submitted : AddScanJob(j)
    \/ \E j \in Submitted : Deliver(j)
    \/ \E j \in Submitted : OnOpen(j)
    \/ \E j \in Submitted, r \in JobIds, st \in {"RUNNING", "FAILED"} :
           OnMessageNamed(j, r, st)

SpecChannel == Init /\ [][NextChannel]_vars

\* C40: a progress message received on the EventSource opened for a job
\* changes the stored entry of that job alone, also when the requestId
\* inside the message names another job.
C40_MessageChangesOwnJobOnly ==
    [][\A j \in Submitted, r \in JobIds, st \in {"RUNNING", "FAILED"} :
         OnMessageNamed(j, r, st)
         => \A k \in JobIds \ {j} : jobs'[k] = jobs[k]]_vars

====
